---- MODULE Spec2Model ----
(***************************************************************************)
(* Session orchestration of debux: `debux exec` against a Kubernetes pod   *)
(* (ephemeral debug container) or a Docker container (debug sidecar), and  *)
(* `debux pod` (standalone debug pod).  An invocation is a process whose   *)
(* position advances by one backend call per step; the cluster and the     *)
(* engine are the environment.                                             *)
(***************************************************************************)
EXTENDS Naturals, Integers, Sequences, FiniteSets, TLC

\* ------------------------------------------------------------------ bounds
MaxRuns == 2       \* CLI invocations in one behaviour, one after the other
MaxLog == 4        \* changes of the pod the API server records

MaxClock == MaxRuns - 1   \* seconds the wall clock may advance

VARIABLES
  target,  \* the runtime of the target the behaviour's invocations address
  clock,   \* time.Now().Unix()
  kpod,    \* the target pod on the API server: spec and status of its ephemeral containers
  rv,      \* the pod's resourceVersion: the number of changes recorded so far
  klog,    \* the pod's change stream, in emission order, since version logBase
  logBase, \* the version klog starts after: klog[i] is the change to version logBase + i
  dk,      \* the Docker engine: the target container and the debug sidecars
  pods,    \* the standalone debug pods of the namespace: name and phase
  inv,     \* the running invocation: position, flags, locals, result
  runs,    \* invocations started so far
  att,     \* the interactive attachment: its tasks, streams and terminal
  cli,     \* the command line being resolved: argument, parsed target, flags, result
  desc,    \* a session descriptor being built: its inputs and the descriptor
  store,   \* the engine's volumes and the store manager's calls on them
  img,     \* `debux image`: its position, the engine's containers and the calls made on them
  conc     \* two `debux exec` processes on one backend: their positions and the sessions

vars == <<target, clock, kpod, rv, klog, logBase, dk, pods, inv, runs, att, cli, desc, store, img, conc>>

\* What the steps of an invocation leave alone: the units modelled apart.
units == <<cli, desc, store, img, conc>>

kvars == <<kpod, rv, klog, logBase>>

\* ------------------------------------------------------- container status
NoDetail == [reason |-> "", code |-> 0]

Running == [state |-> "running", reason |-> "", code |-> 0]

Waiting(r) == [state |-> "waiting", reason |-> r, code |-> 0]

Terminated(r, c) == [state |-> "terminated", reason |-> r, code |-> c]

FatalReasons_short ==
  {"ImagePullBackOff", "ErrImagePull", "InvalidImageName", "CrashLoopBackOff",
   "RunContainerError", "CreateContainerError"}

\* The waiting reasons waitForEphemeralContainer treats as fatal.
FatalReasons ==
  {"ImagePullBackOff", "ErrImagePull", "InvalidImageName", "CrashLoopBackOff",
   "RunContainerError", "CreateContainerError", "CreateContainerConfigError"}

\* --------------------------------------------------------------- the pod
Names == 0..MaxClock          \* debux-<unix seconds>: a session is named by its second

NoName == -1                  \* findRunningDebuxContainer's ""

None == [state |-> "none", reason |-> "", code |-> 0]

\* Waiting reasons the kubelet reports: the fatal ones and an ordinary one.
WaitingReasons ==
  {"ContainerCreating", "ImagePullBackOff", "ErrImagePull", "InvalidImageName",
   "CrashLoopBackOff", "RunContainerError", "CreateContainerError",
   "CreateContainerConfigError"}

Terminations == {Terminated("Error", 1), Terminated("Completed", 0)}

\* The kubelet's next status of an ephemeral container (never restarted).
NextStatus(cur) ==
  CASE cur.state = "none" -> {Waiting(r) : r \in WaitingReasons} \cup {Running} \cup Terminations
    [] cur.state = "waiting" ->
         (IF cur.reason # "ContainerCreating" THEN {}
          ELSE {Waiting(r) : r \in WaitingReasons \ {"ContainerCreating"}})
         \cup {Running} \cup Terminations
    [] cur.state = "running" -> Terminations
    [] OTHER -> {}

SeqToSet(s) == {s[i] : i \in 1..Len(s)}

Event(type, status) == [type |-> type, status |-> status]

\* ------------------------------------------------------- pure functions
RECURSIVE FirstNotRunning(_, _, _)
FirstNotRunning(spec, status, i) ==
  IF i > Len(spec) THEN NoName
  ELSE IF status[spec[i]].state # "running" THEN spec[i]
  ELSE FirstNotRunning(spec, status, i + 1)

findRunningDebuxContainer_inverted(pod) == FirstNotRunning(pod.spec, pod.status, 1)

\* First ephemeral container, in status order, that is running.
RECURSIVE FirstRunning(_, _, _)
FirstRunning(spec, status, i) ==
  IF i > Len(spec) THEN NoName
  ELSE IF status[spec[i]].state = "running" THEN spec[i]
  ELSE FirstRunning(spec, status, i + 1)

findRunningDebuxContainer(pod) == FirstRunning(pod.spec, pod.status, 1)

\* Whether an existing session is looked up at all: `if !opts.Fresh`.
TryReuse_ignoreFlag(fresh) == TRUE

TryReuse(fresh) == ~fresh

FoundInPatched_unchecked(patchedSpec, name) == TRUE

\* The post-update check: is the submitted container in the returned spec?
FoundInPatched(patchedSpec, name) == \E i \in 1..Len(patchedSpec) : patchedSpec[i] = name

WatchResourceVersion_unset(me) == me.rvAtWatch

\* The resourceVersion the readiness watch is opened at.
WatchResourceVersion(me) == me.resp.rv

Classify_runningOnly(ev, name) ==
  IF ev.type = "MODIFIED" /\ ev.status[name].state = "running" THEN "ready" ELSE "continue"

Classify_anyContainer(ev, name) ==
  IF ev.type # "MODIFIED" THEN "continue"
  ELSE IF \E n \in Names : ev.status[n].state = "running" THEN "ready"
  ELSE IF \E n \in Names : ev.status[n].state = "terminated" THEN "terminated"
  ELSE IF \E n \in Names : ev.status[n].state = "waiting" /\ ev.status[n].reason \in FatalReasons
    THEN "fatal"
  ELSE "continue"

\* What one watch event decides for container `name`.
Classify(ev, name) ==
  IF ev.type # "MODIFIED" THEN "continue"
  ELSE LET cs == ev.status[name] IN
    CASE cs.state = "running" -> "ready"
      [] cs.state = "terminated" -> "terminated"
      [] cs.state = "waiting" /\ cs.reason \in FatalReasons -> "fatal"
      [] OTHER -> "continue"

\* describeContainerFailure: the status line of the diagnosis.
DescribeStatus(fetched, pod, name) ==
  IF ~fetched THEN "could not fetch pod status"
  ELSE IF ~(\E i \in 1..Len(pod.spec) : pod.spec[i] = name /\ pod.status[name].state # "none")
    THEN "not found in pod status"
  ELSE IF pod.status[name].state = "waiting" THEN "waiting"
  ELSE IF pod.status[name].state = "terminated" THEN "terminated"
  ELSE "state is unknown"

\* ------------------------------------------------------------ invocations
\* The runtimes runExec dispatches to; one behaviour addresses one target.
Runtimes == {"kubernetes", "docker"}

\* What a behaviour's invocations are: `debux exec` on a target of one of the
\* runtimes, or `debux pod`.
Modes == Runtimes \cup {"pod"}

EntryPc(rt) ==
  CASE rt = "kubernetes" -> "kGet"
    [] rt = "docker" -> "dInspect"
    [] OTHER -> "pCreate"

NoResp == [err |-> FALSE, spec |-> << >>, rv |-> 0]

InitInv ==
  [pc |-> "idle", runtime |-> "none", fresh |-> FALSE, cancelled |-> FALSE,
   name |-> NoName, getRV |-> 0, localSpec |-> << >>, resp |-> NoResp, cursor |-> 0,
   rvAtWatch |-> 0, delivered |-> 0, lastSeen |-> None,
   keep |-> FALSE, initial |-> FALSE, snap |-> "", closed |-> FALSE, emptyReads |-> 0,
   creates |-> 0, watches |-> 0, attaches |-> 0, deletes |-> 0,
   sess |-> "Absent", hadRunning |-> FALSE, reused |-> FALSE, stripped |-> FALSE,
   result |-> "none", detail |-> NoDetail, diag |-> "none", diagEvents |-> FALSE]

\* No attachment: the state of `att` outside execInContainer,
\* runInteractiveContainer, execInPod and attachToPod.
NoAtt ==
  [via |-> "none", pc |-> "none", tty |-> FALSE, rawSet |-> FALSE, cleanup |-> << >>,
   tasks |-> {}, out |-> "idle", inp |-> "idle", outputDone |-> 0, inputDone |-> FALSE,
   stdinEOF |-> FALSE, pendingIn |-> 0, pendingOut |-> 0,
   outOpen |-> FALSE, alive |-> FALSE, code |-> 0, broken |-> FALSE, connClosed |-> FALSE,
   size |-> 1, sent |-> 0]

\* Outside runExec's resolution, a descriptor's construction and the store
\* manager: nothing of them.
NoCli == [pc |-> "none"]

NoDesc == [pc |-> "none"]

NoStore == [pc |-> "none"]

NoImg == [pc |-> "none"]

NoConc == [pc |-> "none"]

Init ==
  /\ target \in Modes
  /\ clock = 0
  /\ kpod = [spec |-> << >>, status |-> [n \in Names |-> None]]
  /\ rv = 0
  /\ klog = << >>
  /\ logBase = 0
  /\ dk = [target |-> "running", cs |-> {}]
  /\ pods = {}
  /\ inv = InitInv
  /\ cli = NoCli
  /\ desc = NoDesc
  /\ store = NoStore
  /\ img = NoImg
  /\ conc = NoConc
  /\ runs = 0
  /\ att = NoAtt

Set(r) == inv' = r

\* The invocation returns: its locals are gone, its result and counts remain.
Finish(me, res) ==
  [me EXCEPT !.pc = "done", !.result = res,
             !.getRV = 0, !.localSpec = << >>, !.resp = NoResp, !.cursor = 0,
             !.rvAtWatch = 0, !.delivered = 0, !.initial = FALSE, !.snap = "",
             !.closed = FALSE, !.emptyReads = 0]

Fail(me, res) == [Finish(me, res) EXCEPT !.sess = "Failed"]

\* runExec: parse the flags and dispatch on the target's runtime.
Start ==
  /\ inv.pc \in {"idle", "done"}
  /\ runs < MaxRuns
  /\ runs' = runs + 1
  /\ \E f \in (IF target = "pod" THEN {FALSE} ELSE BOOLEAN) :
     \E k \in (IF target = "pod" THEN BOOLEAN ELSE {FALSE}) :
       Set([InitInv EXCEPT !.pc = EntryPc(target), !.runtime = target,
                           !.fresh = f, !.keep = k])
  /\ klog' = << >>
  /\ logBase' = rv
  /\ UNCHANGED <<units, target, clock, kpod, rv, dk, pods, att>>

\* SIGINT/SIGTERM cancels the invocation's context.
Interrupt ==
  /\ inv.pc \notin {"idle", "done"}
  /\ ~inv.cancelled
  /\ Set([inv EXCEPT !.cancelled = TRUE])
  /\ UNCHANGED <<units, target, clock, kvars, dk, pods, runs, att>>

\* The wall clock advances. It only names Kubernetes sessions, and an invocation
\* reads it once: the seconds that pass while one runs are those before its start.
Tick ==
  /\ target \in {"kubernetes", "pod"}
  /\ inv.pc \in {"idle", "done"}
  /\ clock < MaxClock
  /\ clock' = clock + 1
  /\ UNCHANGED <<units, target, kvars, dk, pods, inv, runs, att>>

\* The kubelet reports a new status of one ephemeral container; the API server
\* records the change and emits it to the watchers.  No invocation reads the
\* cluster before its start, so a change between two invocations is the same
\* change right after the start of the second.
KubeletStatus ==
  /\ rv < MaxLog
  /\ inv.pc \notin {"idle", "done"}
  /\ \E n \in SeqToSet(kpod.spec) : \E s \in NextStatus(kpod.status[n]) :
       /\ kpod' = [kpod EXCEPT !.status[n] = s]
       /\ rv' = rv + 1
       /\ klog' = Append(klog, Event("MODIFIED", kpod'.status))
  /\ UNCHANGED <<units, target, clock, logBase, dk, pods, inv, runs, att>>

\* KubernetesExec up to the reuse decision: client, Get, findRunningDebuxContainer.
K8sGetPod ==
  LET me == inv IN
  /\ me.pc = "kGet"
  /\ \/ \E e \in {"ClientError", "GetPodError"} : Set(Finish(me, e))
     \/ /\ ~me.cancelled
        /\ LET existing == findRunningDebuxContainer(kpod)
               had == \E n \in SeqToSet(kpod.spec) : kpod.status[n].state = "running" IN
           IF TryReuse(me.fresh) /\ existing # NoName
           THEN Set([me EXCEPT !.pc = "attach", !.name = existing, !.hadRunning = had,
                               !.sess = "Ready", !.reused = TRUE])
           ELSE Set([me EXCEPT !.pc = "kUpdate", !.name = clock, !.hadRunning = had,
                               !.getRV = rv, !.localSpec = kpod.spec])
  /\ UNCHANGED <<units, target, clock, kvars, dk, pods, runs, att>>

\* UpdateEphemeralContainers is sent; the API server rejects it, stores it, or
\* accepts it while an admission layer strips the new container.
K8sUpdateCall ==
  LET me == inv
      sent == [me EXCEPT !.pc = "kUpdating", !.creates = @ + 1, !.sess = "Creating"] IN
  /\ me.pc = "kUpdate"
  /\ \/ /\ Set([sent EXCEPT !.resp = [err |-> TRUE, spec |-> << >>, rv |-> 0]])
        /\ UNCHANGED <<kpod, rv, klog, logBase>>
     \/ /\ ~me.cancelled
        /\ me.getRV = rv
        /\ me.name \notin SeqToSet(me.localSpec)
        /\ rv < MaxLog
        /\ kpod' = [kpod EXCEPT !.spec = Append(me.localSpec, me.name)]
        /\ rv' = rv + 1
        /\ klog' = << >>             \* the watch will ask for the changes after rv'
        /\ logBase' = rv'
        /\ Set([sent EXCEPT !.resp = [err |-> FALSE, spec |-> kpod'.spec, rv |-> rv']])
     \/ /\ ~me.cancelled
        /\ me.getRV = rv
        /\ Set([sent EXCEPT !.resp = [err |-> FALSE, spec |-> kpod.spec, rv |-> rv]])
        /\ UNCHANGED <<kpod, rv, klog, logBase>>
  /\ UNCHANGED <<units, target, clock, dk, pods, runs, att>>

K8sUpdateReturn_skipWait ==
  LET me == inv
      got == [me EXCEPT !.stripped = me.name \notin SeqToSet(me.resp.spec)] IN
  /\ me.pc = "kUpdating"
  /\ \E lost \in (IF me.cancelled THEN BOOLEAN ELSE {FALSE}) :
       IF me.resp.err \/ lost THEN Set(Fail(me, "UpdateError"))
       ELSE IF ~FoundInPatched(me.resp.spec, me.name) THEN Set(Fail(got, "AdmissionStripped"))
       ELSE Set([got EXCEPT !.pc = "attach", !.sess = "Waiting"])
  /\ UNCHANGED <<units, target, clock, kvars, dk, pods, runs, att>>

\* The update returns: error, or the post-create verification of the patched pod.
K8sUpdateReturn ==
  LET me == inv
      got == [me EXCEPT !.stripped = me.name \notin SeqToSet(me.resp.spec)] IN
  /\ me.pc = "kUpdating"
  /\ \E lost \in (IF me.cancelled THEN BOOLEAN ELSE {FALSE}) :
       IF me.resp.err \/ lost THEN Set(Fail(me, "UpdateError"))
       ELSE IF ~FoundInPatched(me.resp.spec, me.name) THEN Set(Fail(got, "AdmissionStripped"))
       ELSE Set([got EXCEPT !.pc = "kWatch", !.sess = "Waiting"])
  /\ UNCHANGED <<units, target, clock, kvars, dk, pods, runs, att>>

\* waitForEphemeralContainer opens the watch.
K8sWatchStart ==
  LET me == inv IN
  /\ me.pc = "kWatch"
  /\ \/ Set([Fail(me, "WatchError") EXCEPT !.watches = @ + 1])
     \/ /\ ~me.cancelled
        /\ LET at == [me EXCEPT !.rvAtWatch = rv] IN
             Set([at EXCEPT !.pc = "kWaiting", !.watches = @ + 1,
                            !.cursor = WatchResourceVersion(at)])
  /\ UNCHANGED <<units, target, clock, kvars, dk, pods, runs, att>>

\* The watch delivers the next event after the cursor.
K8sWatchEvent ==
  LET me == inv IN
  /\ me.pc = "kWaiting"
  /\ ~me.closed
  /\ me.cursor < rv
  /\ LET ev == klog[me.cursor + 1 - logBase]
         seen == [me EXCEPT !.cursor = @ + 1, !.delivered = @ + 1,
                            !.lastSeen = IF ev.type = "MODIFIED" THEN ev.status[me.name] ELSE @]
         what == Classify(ev, me.name)
         cs == ev.status[me.name] IN
       CASE what = "ready" -> Set([seen EXCEPT !.pc = "attach", !.sess = "Ready"])
         [] what = "terminated" ->
              Set([Finish(seen, "Terminated") EXCEPT !.sess = "Terminated",
                                  !.detail = [reason |-> cs.reason, code |-> cs.code]])
         [] what = "fatal" ->
              Set([Fail(seen, "FailedToStart") EXCEPT
                        !.detail = [reason |-> cs.reason, code |-> 0]])
         [] OTHER -> Set(seen)
  /\ klog' = SubSeq(klog, me.cursor + 2 - logBase, Len(klog))   \* consumed: nobody rereads it
  /\ logBase' = me.cursor + 1
  /\ UNCHANGED <<units, target, clock, kpod, rv, dk, pods, runs, att>>

\* The server or the network ends the watch's stream: its result channel is closed.
WatchStreamCloses ==
  /\ inv.pc \in {"kWaiting", "pWaiting"}
  /\ ~inv.closed
  /\ Set([inv EXCEPT !.closed = TRUE])
  /\ UNCHANGED <<units, target, clock, kvars, dk, pods, runs, att>>

\* What a receive from the closed result channel yields: the zero Event.
ZeroEvent == Event("", [n \in Names |-> None])

\* The loop receives from the closed channel: a zero event at once, every time
\* (emptyReads counts them up to one).
K8sWatchClosedRead ==
  LET me == inv IN
  /\ me.pc = "kWaiting"
  /\ me.closed
  /\ Classify(ZeroEvent, me.name) = "continue"
  /\ Set([me EXCEPT !.emptyReads = 1])
  /\ UNCHANGED <<units, target, clock, kvars, dk, pods, runs, att>>

K8sWatchTimeout_never ==
  /\ FALSE
  /\ UNCHANGED vars

\* The 2-minute timer fires: describeContainerFailure, then the timeout error.
K8sWatchTimeout ==
  LET me == inv IN
  /\ me.pc = "kWaiting"
  /\ \E fetched \in (IF me.cancelled THEN {FALSE} ELSE BOOLEAN) :
     \E events \in (IF me.cancelled THEN {FALSE} ELSE BOOLEAN) :
       Set([Fail(me, "Timeout") EXCEPT !.diag = DescribeStatus(fetched, kpod, me.name),
                                          !.diagEvents = events])
  /\ UNCHANGED <<units, target, clock, kvars, dk, pods, runs, att>>

\* ctx.Done() wins the select.
K8sWatchCancelled ==
  LET me == inv IN
  /\ me.pc = "kWaiting"
  /\ me.cancelled
  /\ Set(Fail(me, "Cancelled"))
  /\ UNCHANGED <<units, target, clock, kvars, dk, pods, runs, att>>

\* execInPod: build the executor and open the exec stream.
ExecInPod ==
  LET me == inv IN
  /\ me.pc = "attach"
  /\ me.runtime = "kubernetes"
  /\ \/ Set(Finish(me, "ExecutorError"))
     \/ Set([Finish(me, "StreamError") EXCEPT !.attaches = @ + 1])
     \/ /\ ~me.cancelled
        /\ kpod.status[me.name].state = "running"
        /\ Set([me EXCEPT !.pc = "attached", !.attaches = @ + 1])
  /\ UNCHANGED <<units, target, clock, kvars, dk, pods, runs, att>>

\* ----------------------------------------------------------- KubernetesPod
PodEvent(type, name, phase) == [type |-> type, name |-> name, phase |-> phase]

PodNamed(n) == {p \in pods : p.name = n}

\* The phases a pod with restartPolicy Never goes through.
NextPhase(ph) ==
  CASE ph = "Pending" -> {"Running", "Failed"}
    [] ph = "Running" -> {"Succeeded", "Failed"}
    [] OTHER -> {}

\* The kubelet reports a new phase of a debug pod; the API server records the
\* change and emits it to the watchers.
KubeletPodPhase ==
  /\ rv < MaxLog
  /\ inv.pc \notin {"idle", "done"}
  /\ \E p \in pods : \E ph \in NextPhase(p.phase) :
       /\ pods' = (pods \ {p}) \cup {[p EXCEPT !.phase = ph]}
       /\ rv' = rv + 1
       /\ klog' = Append(klog, PodEvent("MODIFIED", p.name, ph))
  /\ UNCHANGED <<units, target, clock, kpod, logBase, dk, inv, runs, att>>

\* The deferred Delete of KubernetesPod, registered unless --keep: it runs on
\* every return after the Create succeeded, and its error is ignored.
DeferredDelete_ctx(r) ==
  IF r.keep \/ r.cancelled THEN inv' = r /\ UNCHANGED pods
  ELSE /\ inv' = [r EXCEPT !.deletes = @ + 1]
       /\ \/ pods' = pods \ PodNamed(r.name)
          \/ UNCHANGED pods

\* KubernetesPod returns with the record `r`: the Delete call is issued, with a
\* context of its own, and its error is ignored.
DeferredDelete(r) ==
  IF r.keep THEN inv' = r /\ UNCHANGED pods
  ELSE /\ inv' = [r EXCEPT !.deletes = @ + 1]
       /\ \/ pods' = pods \ PodNamed(r.name)
          \/ UNCHANGED pods

\* KubernetesPod up to the Create call: client, pod name from the clock,
\* security context of the profile, Create.
PodCreateCall ==
  LET me == inv IN
  /\ me.pc = "pCreate"
  /\ \/ /\ \E e \in {"ClientError", "ProfileError"} : Set(Finish(me, e))
        /\ UNCHANGED <<pods, rv, klog>>
     \/ LET sent == [me EXCEPT !.pc = "pCreating", !.name = clock, !.creates = @ + 1,
                               !.sess = "Creating"] IN
        \/ /\ Set([sent EXCEPT !.resp = [NoResp EXCEPT !.err = TRUE]])
           /\ UNCHANGED <<pods, rv, klog>>
        \/ /\ ~me.cancelled
           /\ PodNamed(clock) = {}
           /\ rv < MaxLog
           /\ pods' = pods \cup {[name |-> clock, phase |-> "Pending"]}
           /\ rv' = rv + 1
           /\ klog' = Append(klog, PodEvent("ADDED", clock, "Pending"))
           /\ Set([sent EXCEPT !.resp = [NoResp EXCEPT !.rv = rv + 1]])
  /\ UNCHANGED <<units, target, clock, kpod, logBase, dk, runs, att>>

\* The Create returns; on success the cleanup is registered.
PodCreateReturn ==
  LET me == inv IN
  /\ me.pc = "pCreating"
  /\ \E lost \in (IF me.cancelled THEN BOOLEAN ELSE {FALSE}) :
       IF me.resp.err \/ lost THEN Set(Fail(me, "CreateError"))
       ELSE Set([me EXCEPT !.pc = "pWatch", !.sess = "Waiting"])
  /\ UNCHANGED <<units, target, clock, kvars, dk, pods, runs, att>>

\* waitForPodRunning opens its watch, with no resourceVersion: the server
\* first sends the pod as it is now, then the changes that follow.
PodWatchStart ==
  LET me == inv IN
  /\ me.pc = "pWatch"
  /\ \/ DeferredDelete([Fail(me, "WatchError") EXCEPT !.watches = @ + 1])
     \/ /\ ~me.cancelled
        /\ \E p \in PodNamed(me.name) :
             Set([me EXCEPT !.pc = "pWaiting", !.watches = @ + 1, !.rvAtWatch = rv,
                            !.cursor = rv, !.initial = TRUE, !.snap = p.phase])
        /\ UNCHANGED pods
  /\ UNCHANGED <<units, target, clock, kvars, dk, runs, att>>

\* The watch delivers its next event; the field selector drops other pods'.
PodWatchEvent ==
  LET me == inv IN
  /\ me.pc = "pWaiting"
  /\ ~me.closed
  /\ me.initial \/ me.cursor < rv
  /\ LET ev == IF me.initial THEN PodEvent("ADDED", me.name, me.snap)
               ELSE klog[me.cursor + 1 - logBase]
         seen == IF me.initial THEN [me EXCEPT !.initial = FALSE, !.delivered = @ + 1]
                 ELSE IF ev.name = me.name
                      THEN [me EXCEPT !.cursor = @ + 1, !.delivered = @ + 1]
                      ELSE [me EXCEPT !.cursor = @ + 1] IN
       IF ev.name = me.name /\ ev.type \in {"MODIFIED", "ADDED"} /\ ev.phase = "Running"
       THEN Set([seen EXCEPT !.pc = "attach", !.sess = "Ready"])
       ELSE Set(seen)
  /\ UNCHANGED <<units, target, clock, kvars, dk, pods, runs, att>>

\* waitForPodRunning receives from the closed channel: the zero event's type
\* is neither Modified nor Added.
PodWatchClosedRead ==
  LET me == inv IN
  /\ me.pc = "pWaiting"
  /\ me.closed
  /\ ZeroEvent.type \notin {"MODIFIED", "ADDED"}
  /\ Set([me EXCEPT !.emptyReads = 1])
  /\ UNCHANGED <<units, target, clock, kvars, dk, pods, runs, att>>

\* The 2-minute timer fires: the error names the pod and nothing else.
PodWatchTimeout ==
  LET me == inv IN
  /\ me.pc = "pWaiting"
  /\ DeferredDelete(Fail(me, "Timeout"))
  /\ UNCHANGED <<units, target, clock, kvars, dk, runs, att>>

\* ctx.Done() wins the select.
PodWatchCancelled ==
  LET me == inv IN
  /\ me.pc = "pWaiting"
  /\ me.cancelled
  /\ DeferredDelete(Fail(me, "Cancelled"))
  /\ UNCHANGED <<units, target, clock, kvars, dk, runs, att>>

\* attachToPod: build the executor and open the attach stream.
AttachToPod ==
  LET me == inv IN
  /\ me.pc = "attach"
  /\ me.runtime = "pod"
  /\ \/ DeferredDelete(Finish(me, "ExecutorError"))
     \/ DeferredDelete([Finish(me, "StreamError") EXCEPT !.attaches = @ + 1])
     \/ /\ ~me.cancelled
        /\ \E p \in PodNamed(me.name) : p.phase = "Running"
        /\ Set([me EXCEPT !.pc = "attached", !.attaches = @ + 1])
        /\ UNCHANGED pods
  /\ UNCHANGED <<units, target, clock, kvars, dk, runs, att>>

\* ------------------------------------------------------------- DockerExec
\* containerName := "debux-" + targetName: one name per target.
SessionName == "debux-app"

Named(n) == {c \in dk.cs : c.name = n}

\* A container of the engine stops: the target, or a sidecar.
DockerContainerDies ==
  /\ target = "docker"
  /\ \/ /\ dk.target = "running"
        /\ dk' = [dk EXCEPT !.target = "exited"]
     \/ \E c \in dk.cs :
          /\ c.state = "running"
          /\ dk' = [dk EXCEPT !.cs = (@ \ {c}) \cup {[c EXCEPT !.state = "exited"]}]
  /\ UNCHANGED <<units, target, clock, kvars, pods, inv, runs, att>>

DockerInspectTarget_cleanup ==
  LET me == inv IN
  /\ me.pc = "dInspect"
  /\ \/ /\ \E e \in {"DockerClientError", "InspectTargetError"} : Set(Finish(me, e))
        /\ UNCHANGED dk
     \/ /\ ~me.cancelled
        /\ dk.target # "running"
        /\ Set(Finish(me, "TargetNotRunning"))
        /\ dk' = [dk EXCEPT !.cs = @ \ Named(SessionName)]
     \/ /\ ~me.cancelled
        /\ dk.target = "running"
        /\ IF TryReuse(me.fresh)
           THEN Set([me EXCEPT !.pc = "dLookup"])
           ELSE Set([me EXCEPT !.pc = "dImage",
                               !.hadRunning = \E c \in Named(SessionName) : c.state = "running"])
        /\ UNCHANGED dk
  /\ UNCHANGED <<units, target, clock, kvars, pods, runs, att>>

\* Connect, inspect the target, require it to be running.
DockerInspectTarget ==
  LET me == inv IN
  /\ me.pc = "dInspect"
  /\ \/ \E e \in {"DockerClientError", "InspectTargetError"} : Set(Finish(me, e))
     \/ /\ ~me.cancelled
        /\ dk.target # "running"
        /\ Set(Finish(me, "TargetNotRunning"))
     \/ /\ ~me.cancelled
        /\ dk.target = "running"
        /\ IF TryReuse(me.fresh)
           THEN Set([me EXCEPT !.pc = "dLookup"])
           ELSE Set([me EXCEPT !.pc = "dImage",
                               !.hadRunning = \E c \in Named(SessionName) : c.state = "running"])
  /\ UNCHANGED <<units, target, clock, kvars, dk, pods, runs, att>>

DockerLookup_anyState ==
  LET me == inv IN
  /\ me.pc = "dLookup"
  /\ \/ Set([me EXCEPT !.pc = "dImage"])
     \/ /\ ~me.cancelled
        /\ \E c \in Named(SessionName) :
             Set([me EXCEPT !.pc = "attach", !.name = c.id, !.hadRunning = c.state = "running",
                            !.sess = "Ready", !.reused = TRUE])
  /\ UNCHANGED <<units, target, clock, kvars, dk, pods, runs, att>>

\* Without --fresh: inspect the sidecar's name and reuse it when it is running.
DockerLookup ==
  LET me == inv IN
  /\ me.pc = "dLookup"
  /\ \/ Set([me EXCEPT !.pc = "dImage"])        \* the inspect fails
     \/ /\ ~me.cancelled
        /\ \E c \in Named(SessionName) :
             IF c.state = "running"
             THEN Set([me EXCEPT !.pc = "attach", !.name = c.id, !.hadRunning = TRUE,
                                 !.sess = "Ready", !.reused = TRUE])
             ELSE Set([me EXCEPT !.pc = "dImage"])
  /\ UNCHANGED <<units, target, clock, kvars, dk, pods, runs, att>>

\* dbximage.EnsureImage
DockerEnsureImage ==
  LET me == inv IN
  /\ me.pc = "dImage"
  /\ \/ Set(Finish(me, "ImageError"))
     \/ /\ ~me.cancelled
        /\ Set([me EXCEPT !.pc = "dVolumes"])
  /\ UNCHANGED <<units, target, clock, kvars, dk, pods, runs, att>>

DockerEnsureVolumes_thenCreate ==
  LET me == inv IN
  /\ me.pc = "dVolumes"
  /\ \/ Set(Finish(me, "VolumeError"))
     \/ /\ ~me.cancelled
        /\ Set([me EXCEPT !.pc = "dCreate"])
  /\ UNCHANGED <<units, target, clock, kvars, dk, pods, runs, att>>

\* store.EnsureVolumes
DockerEnsureVolumes ==
  LET me == inv IN
  /\ me.pc = "dVolumes"
  /\ \/ Set(Finish(me, "VolumeError"))
     \/ /\ ~me.cancelled
        /\ Set([me EXCEPT !.pc = "dRemove"])
  /\ UNCHANGED <<units, target, clock, kvars, dk, pods, runs, att>>

DockerRemoveStale_strict ==
  LET me == inv IN
  /\ me.pc = "dRemove"
  /\ \/ /\ Set(Fail(me, "RemoveError"))
        /\ UNCHANGED dk
     \/ /\ ~me.cancelled
        /\ Set([me EXCEPT !.pc = "dCreate"])
        /\ dk' = [dk EXCEPT !.cs = @ \ Named(SessionName)]
  /\ UNCHANGED <<units, target, clock, kvars, pods, runs, att>>

\* Best-effort forced removal of a container holding the sidecar's name.
DockerRemoveStale ==
  LET me == inv IN
  /\ me.pc = "dRemove"
  /\ Set([me EXCEPT !.pc = "dCreate"])
  /\ \/ UNCHANGED dk                             \* the removal fails; ignored
     \/ /\ ~me.cancelled
        /\ dk' = [dk EXCEPT !.cs = @ \ Named(SessionName)]
  /\ UNCHANGED <<units, target, clock, kvars, pods, runs, att>>

\* ContainerCreate is sent; the engine refuses a name already in use.
DockerCreateCall ==
  LET me == inv
      sent == [me EXCEPT !.pc = "dCreating", !.creates = @ + 1, !.sess = "Creating"] IN
  /\ me.pc = "dCreate"
  /\ \/ /\ Set([sent EXCEPT !.resp = [err |-> TRUE, spec |-> << >>, rv |-> 0]])
        /\ UNCHANGED dk
     \/ /\ ~me.cancelled
        /\ Named(SessionName) = {}
        /\ dk' = [dk EXCEPT !.cs = @ \cup {[id |-> runs, name |-> SessionName, state |-> "created"]}]
        /\ Set([sent EXCEPT !.resp = [err |-> FALSE, spec |-> << >>, rv |-> runs]])
  /\ UNCHANGED <<units, target, clock, kvars, pods, runs, att>>

DockerCreateReturn_retry ==
  LET me == inv IN
  /\ me.pc = "dCreating"
  /\ IF me.resp.err THEN Set([me EXCEPT !.pc = "dCreate"])
     ELSE Set([me EXCEPT !.pc = "dStart", !.sess = "Waiting", !.name = me.resp.rv])
  /\ UNCHANGED <<units, target, clock, kvars, dk, pods, runs, att>>

\* ContainerCreate returns: the error, or the new container's ID.
DockerCreateReturn ==
  LET me == inv IN
  /\ me.pc = "dCreating"
  /\ IF me.resp.err THEN Set(Fail(me, "CreateError"))
     ELSE Set([me EXCEPT !.pc = "dStart", !.sess = "Waiting", !.name = me.resp.rv])
  /\ UNCHANGED <<units, target, clock, kvars, dk, pods, runs, att>>

\* ContainerStart; on failure the created container is removed, best effort.
DockerStart ==
  LET me == inv IN
  /\ me.pc = "dStart"
  /\ \/ /\ Set(Fail(me, "StartError"))
        /\ \/ UNCHANGED dk
           \/ /\ ~me.cancelled
              /\ dk' = [dk EXCEPT !.cs = {c \in @ : c.id # me.name}]
     \/ /\ ~me.cancelled
        /\ \E c \in dk.cs :
             /\ c.id = me.name /\ c.state = "created"
             /\ dk' = [dk EXCEPT !.cs = (@ \ {c}) \cup {[c EXCEPT !.state = "running"]}]
        /\ Set([me EXCEPT !.pc = "attach", !.sess = "Ready"])
  /\ UNCHANGED <<units, target, clock, kvars, pods, runs, att>>

\* execInContainer: ContainerExecCreate and ContainerExecAttach.
ExecInContainer ==
  LET me == inv IN
  /\ me.pc = "attach"
  /\ me.runtime = "docker"
  /\ \/ \E e \in {"ExecCreateError", "ExecAttachError"} :
          Set([Finish(me, e) EXCEPT !.attaches = @ + 1])
     \/ /\ ~me.cancelled
        /\ \E c \in dk.cs : c.id = me.name /\ c.state = "running"
        /\ Set([me EXCEPT !.pc = "attached", !.attaches = @ + 1])
  /\ UNCHANGED <<units, target, clock, kvars, dk, pods, runs, att>>

ShellEnds_teardown ==
  LET me == inv IN
  /\ me.pc = "attached"
  /\ \E r \in {"ok"} \cup (IF me.runtime = "kubernetes" THEN {"StreamError"} ELSE {})
                   \cup (IF me.cancelled THEN {"Cancelled"} ELSE {}) :
       Set(Finish(me, r))
  /\ dk' = [dk EXCEPT !.cs = {c \in @ : c.id # me.name}]
  /\ UNCHANGED <<units, target, clock, kvars, pods, runs, att>>

\* The interactive shell ends: remote exit, end of input, stream error or interrupt.
ShellEnds ==
  LET me == inv IN
  /\ me.pc = "attached"
  /\ \E r \in {"ok"} \cup (IF me.runtime # "docker" THEN {"StreamError"} ELSE {})
                   \cup (IF me.cancelled THEN {"Cancelled"} ELSE {}) :
       IF me.runtime = "pod" THEN DeferredDelete(Finish(me, r))
       ELSE Set(Finish(me, r)) /\ UNCHANGED pods
  /\ UNCHANGED <<units, target, clock, kvars, dk, runs, att>>

Next ==
  \/ Tick
  \/ KubeletStatus
  \/ Start
  \/ Interrupt
  \/ K8sGetPod
  \/ K8sUpdateCall
  \/ K8sUpdateReturn
  \/ K8sWatchStart
  \/ K8sWatchEvent
  \/ K8sWatchTimeout
  \/ K8sWatchCancelled
  \/ ExecInPod
  \/ KubeletPodPhase
  \/ PodCreateCall
  \/ PodCreateReturn
  \/ PodWatchStart
  \/ PodWatchEvent
  \/ PodWatchTimeout
  \/ PodWatchCancelled
  \/ AttachToPod
  \/ DockerContainerDies
  \/ DockerInspectTarget
  \/ DockerLookup
  \/ DockerEnsureImage
  \/ DockerEnsureVolumes
  \/ DockerRemoveStale
  \/ DockerCreateCall
  \/ DockerCreateReturn
  \/ DockerStart
  \/ ExecInContainer
  \/ ShellEnds

Spec == Init /\ [][Next]_vars

\* ------------------------------------------- the readiness watch, closely
\* The modes that wait for readiness with a watch, on a backend whose event
\* stream may end at any time.
InitWatch == Init /\ target \in {"kubernetes", "pod"}

\* SpecWatch follows one invocation through its watch.
StartWatch == runs = 0 /\ Start

NextWatch ==
  \/ Tick
  \/ KubeletStatus
  \/ StartWatch
  \/ Interrupt
  \/ K8sGetPod
  \/ K8sUpdateCall
  \/ K8sUpdateReturn
  \/ K8sWatchStart
  \/ K8sWatchEvent
  \/ WatchStreamCloses
  \/ K8sWatchClosedRead
  \/ K8sWatchTimeout
  \/ K8sWatchCancelled
  \/ ExecInPod
  \/ KubeletPodPhase
  \/ PodCreateCall
  \/ PodCreateReturn
  \/ PodWatchStart
  \/ PodWatchEvent
  \/ PodWatchClosedRead
  \/ PodWatchTimeout
  \/ PodWatchCancelled
  \/ AttachToPod
  \/ ShellEnds

\* The watch loops' select takes a ready case at random, so a case that stays
\* ready is taken: the expired timer's.
SpecWatch ==
  /\ InitWatch /\ [][NextWatch]_vars
  /\ WF_vars(K8sWatchTimeout) /\ WF_vars(PodWatchTimeout)

\* ------------------------------------------- the interactive attachment, closely
MaxBuf == 1        \* bytes waiting in a stream, each way
MaxSize == 2       \* sizes the local terminal's window takes

\* What attaches: the runtimes' sessions, and `debux image`'s debug container.
AttachModes == Modes \cup {"image"}

\* The transport: execInContainer, runInteractiveContainer, or StreamWithContext
\* of execInPod and attachToPod.
Via(rt) ==
  CASE rt = "docker" -> "exec"
    [] rt = "image" -> "run"
    [] OTHER -> "stream"

ImageName == "debux-image-app"

\* The state in which the attach function is entered, per mode: the session is
\* ready (or, for an image, its container is created and not yet started).
AtAttach(t) ==
  LET ready == [InitInv EXCEPT !.pc = "attach", !.runtime = t, !.creates = 1,
                               !.sess = "Ready", !.resp = [NoResp EXCEPT !.rv = 1]] IN
  CASE t = "kubernetes" ->
         [kpod |-> [spec |-> <<0>>, status |-> [n \in Names |-> IF n = 0 THEN Running ELSE None]],
          rv |-> 2, klog |-> << >>, logBase |-> 2,
          dk |-> [target |-> "running", cs |-> {}], pods |-> {},
          inv |-> [ready EXCEPT !.name = 0, !.resp.spec = <<0>>, !.rvAtWatch = 2, !.cursor = 2,
                                !.delivered = 1, !.lastSeen = Running, !.watches = 1]]
    [] t = "docker" ->
         [kpod |-> [spec |-> << >>, status |-> [n \in Names |-> None]],
          rv |-> 0, klog |-> << >>, logBase |-> 0,
          dk |-> [target |-> "running",
                  cs |-> {[id |-> 1, name |-> SessionName, state |-> "running"]}],
          pods |-> {},
          inv |-> [ready EXCEPT !.name = 1, !.fresh = TRUE]]
    [] t = "pod" ->
         [kpod |-> [spec |-> << >>, status |-> [n \in Names |-> None]],
          rv |-> 2,
          klog |-> <<PodEvent("ADDED", 0, "Pending"), PodEvent("MODIFIED", 0, "Running")>>,
          logBase |-> 0,
          dk |-> [target |-> "running", cs |-> {}],
          pods |-> {[name |-> 0, phase |-> "Running"]},
          inv |-> [ready EXCEPT !.name = 0, !.rvAtWatch = 2, !.cursor = 2, !.delivered = 1,
                                !.snap = "Running", !.watches = 1]]
    [] OTHER ->
         [kpod |-> [spec |-> << >>, status |-> [n \in Names |-> None]],
          rv |-> 0, klog |-> << >>, logBase |-> 0,
          dk |-> [target |-> "created",
                  cs |-> {[id |-> 1, name |-> ImageName, state |-> "created"]}],
          pods |-> {},
          inv |-> [ready EXCEPT !.name = 1, !.sess = "Created"]]

\* One invocation at its attach point; standard input is a terminal or not,
\* and a standalone pod is kept or not.
InitAttach ==
  /\ target \in AttachModes
  /\ clock = 0
  /\ runs = 1
  /\ kpod = AtAttach(target).kpod
  /\ rv = AtAttach(target).rv
  /\ klog = AtAttach(target).klog
  /\ logBase = AtAttach(target).logBase
  /\ dk = AtAttach(target).dk
  /\ pods = AtAttach(target).pods
  /\ \E k \in (IF target = "pod" THEN BOOLEAN ELSE {FALSE}) :
       inv = [AtAttach(target).inv EXCEPT !.keep = k]
  /\ \E b \in BOOLEAN : att = [NoAtt EXCEPT !.tty = b]
  /\ cli = NoCli
  /\ desc = NoDesc
  /\ store = NoStore
  /\ img = NoImg
  /\ conc = NoConc

\* The deferred functions of the attach function, in the order they run.
Deferred(a) ==
  IF ~a.rawSet THEN << >>
  ELSE IF a.via = "stream" THEN <<"restore">>
  ELSE <<"restore", "reset">>

\* DockerImage's deferred removals: the debug container (unless the engine
\* auto-removes it) and the target container, each best effort.
ImageDeferred ==
  \E gone \in SUBSET dk.cs : \E t \in {dk.target, "removed"} :
    dk' = [dk EXCEPT !.cs = dk.cs \ gone, !.target = t]

\* The attach function returns `res`: its deferred functions run, then its
\* caller's.
AttachReturn(res) ==
  /\ att' = [att EXCEPT !.pc = "returned", !.cleanup = @ \o Deferred(att),
                        !.connClosed = (att.via # "stream")]
  /\ IF inv.runtime = "pod" THEN DeferredDelete(Finish(inv, res))
     ELSE Set(Finish(inv, res)) /\ UNCHANGED pods
  /\ IF inv.runtime = "image" THEN ImageDeferred ELSE UNCHANGED dk

\* What the opening calls fail with: ContainerExecCreate and ContainerExecAttach,
\* ContainerAttach and ContainerStart, NewSPDYExecutor.
OpenErrors(via) ==
  CASE via = "exec" -> {"ExecCreateError", "ExecAttachError"}
    [] via = "run" -> {"AttachError", "StartError"}
    [] OTHER -> {"ExecutorError"}

\* The attach function up to the terminal setup: the exec session or the
\* hijacked connection is opened (and the image's container started), or the
\* executor is built.
AttachOpen ==
  LET via == Via(inv.runtime) IN
  /\ inv.pc = "attach"
  /\ \/ /\ \E e \in OpenErrors(via) :
             LET r == [Finish(inv, e) EXCEPT !.attaches = IF via = "stream" THEN @ ELSE @ + 1] IN
             IF inv.runtime = "pod" THEN DeferredDelete(r) ELSE Set(r) /\ UNCHANGED pods
        /\ att' = [att EXCEPT !.via = via, !.pc = "returned"]
        /\ IF inv.runtime = "image" THEN ImageDeferred ELSE UNCHANGED dk
     \/ /\ ~inv.cancelled
        /\ Set([inv EXCEPT !.pc = "attached", !.attaches = @ + 1,
                           !.sess = IF via = "run" THEN "Ready" ELSE @])
        /\ att' = [att EXCEPT !.via = via, !.pc = "term",
                              !.alive = (via # "stream"), !.outOpen = (via # "stream")]
        /\ dk' = IF via = "run"
                   THEN [dk EXCEPT !.cs = {[c EXCEPT !.state = "running"] : c \in @}]
                   ELSE dk
        /\ UNCHANGED pods
  /\ UNCHANGED <<units, target, clock, kvars, runs>>

\* term.GetFdInfo and term.SetRawTerminal; the restore is deferred only when
\* raw mode was set.  The cluster transport then calls StreamWithContext, whose
\* tasks copy each way and, with a size queue, poll the window size.
AttachTerminal ==
  /\ att.pc = "term"
  /\ \E ok \in (IF att.tty THEN BOOLEAN ELSE {FALSE}) :
       att' = IF att.via = "stream"
                THEN [att EXCEPT !.rawSet = ok, !.pc = "stream", !.alive = TRUE, !.outOpen = TRUE,
                                 !.out = "copying", !.inp = "copying",
                                 !.tasks = {"output", "input"}
                                           \cup (IF att.tty THEN {"resize"} ELSE {})]
                ELSE [att EXCEPT !.rawSet = ok, !.pc = "resize"]
  /\ UNCHANGED <<units, target, clock, kvars, dk, pods, inv, runs>>

\* The initial resize of the local-engine transports: once, best effort, and
\* only on a terminal.
AttachResize ==
  /\ att.pc = "resize"
  /\ \E ok \in (IF att.tty THEN BOOLEAN ELSE {FALSE}) :
       att' = [att EXCEPT !.pc = "spawn", !.sent = IF ok THEN att.size ELSE @]
  /\ UNCHANGED <<units, target, clock, kvars, dk, pods, inv, runs>>

\* The two goroutines are started and the function reaches its select.
AttachSpawn ==
  /\ att.pc = "spawn"
  /\ att' = [att EXCEPT !.pc = "select", !.out = "copying", !.inp = "copying",
                        !.tasks = {"output", "input"}]
  /\ UNCHANGED <<units, target, clock, kvars, dk, pods, inv, runs>>

\* io.Copy(os.Stdout, hijacked.Reader): one read and write, or the end of the
\* stream (or the closed connection) and the send on outputDone.
OutputCopy ==
  /\ att.out = "copying"
  /\ \/ /\ att.pendingOut > 0 /\ ~att.connClosed
        /\ att' = [att EXCEPT !.pendingOut = @ - 1]
     \/ /\ (att.pendingOut = 0 /\ ~att.outOpen) \/ att.connClosed
        /\ att' = [att EXCEPT !.out = "done", !.outputDone = 1]
  /\ UNCHANGED <<units, target, clock, kvars, dk, pods, inv, runs>>

\* io.Copy(hijacked.Conn, os.Stdin): one read and write, or end of input (or a
\* write to the closed connection) and the close of inputDone.
InputCopy ==
  /\ att.inp = "copying"
  /\ \/ /\ att.pendingIn > 0 /\ ~att.connClosed
        /\ att' = [att EXCEPT !.pendingIn = @ - 1]
     \/ /\ (att.pendingIn = 0 /\ att.stdinEOF) \/ (att.pendingIn > 0 /\ att.connClosed)
        /\ att' = [att EXCEPT !.inp = "done", !.inputDone = TRUE]
  /\ UNCHANGED <<units, target, clock, kvars, dk, pods, inv, runs>>

\* execInContainer's select: outputDone, inputDone (then outputDone alone), ctx.Done().
ExecSelect ==
  /\ att.via = "exec" /\ att.pc = "select"
  /\ \/ /\ att.outputDone = 1
        /\ AttachReturn("ok")
     \/ /\ att.inputDone
        /\ att' = [att EXCEPT !.pc = "drain"]
        /\ UNCHANGED <<dk, pods, inv>>
     \/ /\ inv.cancelled
        /\ AttachReturn("Cancelled")
  /\ UNCHANGED <<units, target, clock, kvars, runs>>

\* `<-outputDone` after inputDone.
ExecDrain ==
  /\ att.via = "exec" /\ att.pc = "drain"
  /\ att.outputDone = 1
  /\ AttachReturn("ok")
  /\ UNCHANGED <<units, target, clock, kvars, runs>>

\* runInteractiveContainer's select: errCh (the wait request failed: the context
\* is cancelled or the engine is gone), statusCh (the container is not running),
\* inputDone (then outputDone or statusCh).
RunSelect ==
  /\ att.via = "run" /\ att.pc = "select"
  /\ \/ /\ inv.cancelled \/ att.broken
        /\ AttachReturn("WaitError")
     \/ /\ ~att.alive
        /\ AttachReturn("ok")
     \/ /\ att.inputDone
        /\ att' = [att EXCEPT !.pc = "drain"]
        /\ UNCHANGED <<dk, pods, inv>>
  /\ UNCHANGED <<units, target, clock, kvars, runs>>

RunDrain ==
  /\ att.via = "run" /\ att.pc = "drain"
  /\ att.outputDone = 1 \/ ~att.alive
  /\ AttachReturn("ok")
  /\ UNCHANGED <<units, target, clock, kvars, runs>>

\* StreamWithContext returns: the context is cancelled, the connection broke,
\* or the remote shell ended (an error when its exit code is not 0).
StreamReturn ==
  /\ att.via = "stream" /\ att.pc = "stream"
  /\ \/ /\ inv.cancelled
        /\ AttachReturn("Cancelled")
     \/ /\ att.broken
        /\ AttachReturn("StreamError")
     \/ /\ ~att.alive
        /\ AttachReturn(IF att.code = 0 THEN "ok" ELSE "StreamError")
  /\ UNCHANGED <<units, target, clock, kvars, runs>>

\* The executor's size task: terminalSizeQueue.Next returns the current size at
\* once, every time, and the size is sent.
SizeQueueNext ==
  /\ att.via = "stream" /\ att.pc = "stream"
  /\ "resize" \in att.tasks
  /\ att.sent # att.size
  /\ att' = [att EXCEPT !.sent = att.size]
  /\ UNCHANGED <<units, target, clock, kvars, dk, pods, inv, runs>>

\* The environment of an attachment, while the function is in it.
Streaming == inv.pc = "attached" /\ att.pc \in {"select", "drain", "stream"}

ExitCodes == {0, 2}

BackendWrites ==
  /\ Streaming /\ att.outOpen /\ att.pendingOut < MaxBuf
  /\ att' = [att EXCEPT !.pendingOut = @ + 1]
  /\ UNCHANGED <<units, target, clock, kvars, dk, pods, inv, runs>>

KeyPress ==
  /\ Streaming /\ ~att.stdinEOF /\ att.pendingIn < MaxBuf
  /\ att' = [att EXCEPT !.pendingIn = @ + 1]
  /\ UNCHANGED <<units, target, clock, kvars, dk, pods, inv, runs>>

StdinCloses ==
  /\ Streaming /\ ~att.stdinEOF
  /\ att' = [att EXCEPT !.stdinEOF = TRUE]
  /\ UNCHANGED <<units, target, clock, kvars, dk, pods, inv, runs>>

\* The remote shell exits: its output ends after what is in flight.
ShellExits ==
  /\ Streaming /\ att.alive
  /\ \E c \in ExitCodes : att' = [att EXCEPT !.alive = FALSE, !.code = c, !.outOpen = FALSE]
  /\ UNCHANGED <<units, target, clock, kvars, dk, pods, inv, runs>>

\* The connection to the backend is lost.
BackendBreaks ==
  /\ Streaming /\ ~att.broken
  /\ att' = [att EXCEPT !.broken = TRUE, !.outOpen = FALSE]
  /\ UNCHANGED <<units, target, clock, kvars, dk, pods, inv, runs>>

\* The user resizes the window: the OS notifies the process (SIGWINCH).
WindowChange ==
  /\ Streaming /\ att.tty /\ att.size < MaxSize
  /\ att' = [att EXCEPT !.size = @ + 1]
  /\ UNCHANGED <<units, target, clock, kvars, dk, pods, inv, runs>>

MainStep ==
  \/ AttachOpen
  \/ AttachTerminal
  \/ AttachResize
  \/ AttachSpawn
  \/ ExecSelect
  \/ ExecDrain
  \/ RunSelect
  \/ RunDrain
  \/ StreamReturn

NextAttach ==
  \/ Interrupt
  \/ AttachOpen
  \/ AttachTerminal
  \/ AttachResize
  \/ AttachSpawn
  \/ OutputCopy
  \/ InputCopy
  \/ ExecSelect
  \/ ExecDrain
  \/ RunSelect
  \/ RunDrain
  \/ StreamReturn
  \/ SizeQueueNext
  \/ BackendWrites
  \/ KeyPress
  \/ StdinCloses
  \/ ShellExits
  \/ BackendBreaks
  \/ WindowChange

\* The goroutines are scheduled fairly: the function's own, the two copies and
\* the executor's size task.  Nothing is assumed of the backend or the user.
SpecAttach ==
  /\ InitAttach /\ [][NextAttach]_vars
  /\ WF_vars(MainStep) /\ WF_vars(OutputCopy) /\ WF_vars(InputCopy) /\ WF_vars(SizeQueueNext)

\* ------------------------------------------------- runExec's resolution, closely
MaxBody == 7       \* characters of an address after its schema prefix

\* Addresses are sequences of characters: a letter, the segment separator and
\* the colon of the schema separator.
Chars == {"a", "/", ":"}

SchemaSep == <<":", "/", "/">>

K8sSchema == <<"k", "8", "s">>

DockerSchema == <<"d", "o", "c", "k", "e", "r">>

ContainerdSchema == <<"c", "o", "n", "t", "a", "i", "n", "e", "r", "d">>

NerdctlSchema == <<"n", "e", "r", "d", "c", "t", "l">>

DefaultNamespace == <<"d", "e", "f", "a", "u", "l", "t">>

\* strings.Index: the offset of the first occurrence of sub in s, or -1.
StrIndex(s, sub) ==
  LET at == {i \in 0..(Len(s) - Len(sub)) : SubSeq(s, i + 1, i + Len(sub)) = sub} IN
  IF at = {} THEN -1 ELSE CHOOSE i \in at : \A j \in at : i <= j

\* strings.Split(s, "/").
RECURSIVE StrSplit(_)
StrSplit(s) ==
  LET i == StrIndex(s, <<"/">>) IN
  IF i = -1 THEN <<s>>
  ELSE <<SubSeq(s, 1, i)>> \o StrSplit(SubSeq(s, i + 2, Len(s)))

NoTarget == [runtime |-> "", name |-> << >>, namespace |-> << >>, container |-> << >>]

Parsed(t) == [err |-> "", target |-> t]

ParseError(e) == [err |-> e, target |-> NoTarget]

parseK8sTarget_swapped(rest) ==
  LET t == [NoTarget EXCEPT !.runtime = "kubernetes", !.namespace = DefaultNamespace]
      parts == StrSplit(rest) IN
  IF rest = << >> THEN Parsed(t)
  ELSE CASE Len(parts) = 1 -> Parsed([t EXCEPT !.name = parts[1]])
         [] Len(parts) = 2 -> Parsed([t EXCEPT !.namespace = parts[2], !.name = parts[1]])
         [] Len(parts) = 3 ->
              Parsed([t EXCEPT !.namespace = parts[1], !.name = parts[2], !.container = parts[3]])
         [] OTHER -> ParseError("InvalidFormat")

parseK8sTarget_anyDepth(rest) ==
  LET t == [NoTarget EXCEPT !.runtime = "kubernetes", !.namespace = DefaultNamespace]
      parts == StrSplit(rest) IN
  IF rest = << >> THEN Parsed(t)
  ELSE CASE Len(parts) = 1 -> Parsed([t EXCEPT !.name = parts[1]])
         [] Len(parts) = 2 -> Parsed([t EXCEPT !.namespace = parts[1], !.name = parts[2]])
         [] OTHER ->
              Parsed([t EXCEPT !.namespace = parts[1], !.name = parts[2], !.container = parts[3]])

parseK8sTarget(rest) ==
  LET t == [NoTarget EXCEPT !.runtime = "kubernetes", !.namespace = DefaultNamespace]
      parts == StrSplit(rest) IN
  IF rest = << >> THEN Parsed(t)
  ELSE CASE Len(parts) = 1 -> Parsed([t EXCEPT !.name = parts[1]])
         [] Len(parts) = 2 -> Parsed([t EXCEPT !.namespace = parts[1], !.name = parts[2]])
         [] Len(parts) = 3 ->
              Parsed([t EXCEPT !.namespace = parts[1], !.name = parts[2], !.container = parts[3]])
         [] OTHER -> ParseError("InvalidFormat")

ParseTarget_unknownAsDocker(raw) ==
  LET idx == StrIndex(raw, SchemaSep)
      schema == SubSeq(raw, 1, idx)
      rest == SubSeq(raw, idx + 4, Len(raw)) IN
  IF raw = << >> THEN ParseError("EmptyTarget")
  ELSE IF idx # -1 THEN
    CASE schema \in {ContainerdSchema, NerdctlSchema} ->
           Parsed([NoTarget EXCEPT !.runtime = "containerd", !.name = rest])
      [] schema = K8sSchema -> parseK8sTarget(rest)
      [] OTHER -> Parsed([NoTarget EXCEPT !.runtime = "docker", !.name = rest])
  ELSE Parsed([NoTarget EXCEPT !.runtime = "docker", !.name = raw])

ParseTarget_containerdDefault(raw) ==
  LET idx == StrIndex(raw, SchemaSep) IN
  IF raw = << >> THEN ParseError("EmptyTarget")
  ELSE IF idx # -1 THEN ParseError("UnknownSchema")
  ELSE Parsed([NoTarget EXCEPT !.runtime = "containerd", !.name = raw])

ParseTarget(raw) ==
  LET idx == StrIndex(raw, SchemaSep)
      schema == SubSeq(raw, 1, idx)
      rest == SubSeq(raw, idx + 4, Len(raw)) IN
  IF raw = << >> THEN ParseError("EmptyTarget")
  ELSE IF idx # -1 THEN
    CASE schema = DockerSchema -> Parsed([NoTarget EXCEPT !.runtime = "docker", !.name = rest])
      [] schema \in {ContainerdSchema, NerdctlSchema} ->
           Parsed([NoTarget EXCEPT !.runtime = "containerd", !.name = rest])
      [] schema = K8sSchema -> parseK8sTarget(rest)
      [] OTHER -> ParseError("UnknownSchema")
  ELSE Parsed([NoTarget EXCEPT !.runtime = "docker", !.name = raw])

\* The error kinds of the taxonomy.
ErrorKind(e) == IF e = "UnknownSchema" THEN "UnknownRuntime" ELSE "InvalidAddress"

ValidProfiles == {"general", "baseline", "restricted", "netadmin", "sysadmin"}

\* What --profile may hold: a supported profile or something else.
ProfileFlags == ValidProfiles \cup {"bogus"}

RECURSIVE SeqsUpTo(_, _)
SeqsUpTo(S, n) ==
  IF n = 0 THEN {<< >>}
  ELSE LET shorter == SeqsUpTo(S, n - 1) IN
       shorter \cup {Append(s, c) : s \in {x \in shorter : Len(x) = n - 1}, c \in S}

\* The command's argument: an optional schema prefix and a body.
Addresses ==
  {p \o b : p \in {<< >>} \cup {s \o SchemaSep : s \in {K8sSchema, DockerSchema,
                                                       ContainerdSchema, NerdctlSchema}},
            b \in SeqsUpTo(Chars, MaxBody)}

\* The rest of the state while a unit is followed on its own.
Elsewhere ==
  /\ target = "none"
  /\ clock = 0
  /\ kpod = [spec |-> << >>, status |-> [n \in Names |-> None]]
  /\ rv = 0
  /\ klog = << >>
  /\ logBase = 0
  /\ dk = [target |-> "running", cs |-> {}]
  /\ pods = {}
  /\ inv = InitInv
  /\ runs = 0
  /\ att = NoAtt

\* runExec is entered with no argument or with one address; runPod takes none.
InitCli ==
  /\ Elsewhere
  /\ \E c \in {"exec", "pod"} :
     \E args \in IF c = "exec" THEN {<< >>} \cup {<<a>> : a \in Addresses} ELSE {<< >>} :
       cli = [cmd |-> c, pc |-> "start", args |-> args, target |-> NoTarget, profile |-> "",
              calls |-> 0, result |-> "none"]
  /\ desc = NoDesc
  /\ store = NoStore
  /\ img = NoImg
  /\ conc = NoConc

CliDone(res) == cli' = [cli EXCEPT !.pc = "done", !.result = res]

\* runExec: no argument means Docker and the picker; else ParseTarget.
CliParse ==
  /\ cli.cmd = "exec"
  /\ cli.pc = "start"
  /\ IF Len(cli.args) = 0
       THEN cli' = [cli EXCEPT !.pc = "parsed", !.target = [NoTarget EXCEPT !.runtime = "docker"]]
       ELSE LET r == ParseTarget(cli.args[1]) IN
            IF r.err # "" THEN CliDone(ErrorKind(r.err))
            ELSE cli' = [cli EXCEPT !.pc = "parsed", !.target = r.target]
  /\ UNCHANGED <<target, clock, kvars, dk, pods, inv, runs, att, desc, store, img, conc>>

CliPick_skipped ==
  /\ cli.pc = "parsed"
  /\ cli' = [cli EXCEPT !.pc = "named"]
  /\ UNCHANGED <<target, clock, kvars, dk, pods, inv, runs, att, desc, store, img, conc>>

\* pickTarget when the name is empty: DockerList or KubernetesList, then the
\* picker; no picker for containerd.
CliPick ==
  /\ cli.pc = "parsed"
  /\ IF cli.target.name # << >> THEN cli' = [cli EXCEPT !.pc = "named"]
     ELSE IF cli.target.runtime \notin {"docker", "kubernetes"} THEN CliDone("PickerUnsupported")
     ELSE \/ cli' = [cli EXCEPT !.pc = "done", !.calls = @ + 1, !.result = "PickError"]
          \/ cli' = [cli EXCEPT !.pc = "named", !.calls = @ + 1, !.target.name = <<"a">>]
  /\ UNCHANGED <<target, clock, kvars, dk, pods, inv, runs, att, desc, store, img, conc>>

\* resolveProfile: the --profile flag. A name outside ValidProfiles is refused
\* here or handed on to the runtime, which refuses it in
\* SecurityContextForProfile.
CliResolveProfile ==
  /\ cli.pc = "named"
  /\ \E p \in ProfileFlags :
       \/ p \notin ValidProfiles /\ CliDone("UnknownProfile")
       \/ cli' = [cli EXCEPT !.pc = "resolved", !.profile = p]
  /\ UNCHANGED <<target, clock, kvars, dk, pods, inv, runs, att, desc, store, img, conc>>

\* The switch on the runtime. DockerExec and ContainerdExec up to their first
\* backend call; KubernetesExec gets the pod, which may fail, and then asks
\* SecurityContextForProfile.
CliDispatch ==
  /\ cli.pc = "resolved"
  /\ CASE cli.target.runtime \in {"docker", "containerd"} ->
            cli' = [cli EXCEPT !.pc = "dispatched", !.calls = @ + 1]
       [] cli.target.runtime = "kubernetes" ->
            \/ cli' = [cli EXCEPT !.pc = "done", !.calls = @ + 1, !.result = "TargetNotFound"]
            \/ cli' = [cli EXCEPT !.pc = IF cli.profile \in ValidProfiles THEN "dispatched" ELSE "done",
                                  !.calls = @ + 1,
                                  !.result = IF cli.profile \in ValidProfiles THEN @ ELSE "UnknownProfile"]
       [] OTHER -> CliDone("UnknownRuntime")
  /\ UNCHANGED <<target, clock, kvars, dk, pods, inv, runs, att, desc, store, img, conc>>

\* runPod and KubernetesPod: the client is built without a request, the
\* profile is mapped, then the pod is created.
CliPod ==
  /\ cli.cmd = "pod"
  /\ cli.pc = "start"
  /\ \E p \in ProfileFlags :
       IF p \in ValidProfiles
       THEN cli' = [cli EXCEPT !.pc = "dispatched", !.profile = p, !.calls = @ + 1,
                               !.target = [NoTarget EXCEPT !.runtime = "kubernetes"]]
       ELSE CliDone("UnknownProfile")
  /\ UNCHANGED <<target, clock, kvars, dk, pods, inv, runs, att, desc, store, img, conc>>

NextCli ==
  \/ CliParse
  \/ CliPick
  \/ CliResolveProfile
  \/ CliDispatch
  \/ CliPod

SpecCli == InitCli /\ [][NextCli]_vars

\* ------------------------------------------------------- the store's volumes
MaxEnsureCalls == 2     \* calls of EnsureVolumes made one after the other

NixStoreVolume == "debux-nix-store"

NixVarVolume == "debux-nix-var"

Volumes == <<NixStoreVolume, NixVarVolume>>

ManagedBy == "debux"

\* The engine's volumes by name: absent, or present with a managed-by label
\* ("" when it carries none).
Absent == [present |-> FALSE, label |-> ""]

Present(l) == [present |-> TRUE, label |-> l]

VolumeStates == {Absent, Present(""), Present(ManagedBy)}

\* EnsureVolumes is called on volumes in any state; Clean likewise.
InitStore ==
  /\ Elsewhere
  /\ cli = NoCli
  /\ desc = NoDesc
  /\ img = NoImg
  /\ conc = NoConc
  /\ \E c \in {"ensure", "clean"} :
     \E vs \in [SeqToSet(Volumes) -> VolumeStates] :
       store = [cmd |-> c, pc |-> IF c = "ensure" THEN "inspect" ELSE "connect",
                i |-> 1, call |-> 1, vols |-> vs, atStart |-> vs,
                creates |-> [n \in SeqToSet(Volumes) |-> << >>],
                removes |-> [n \in SeqToSet(Volumes) |-> << >>],
                results |-> << >>, printed |-> FALSE]

\* One call of EnsureVolumes or of the clean command returns res.
StoreReturn(s, res) ==
  LET t == [s EXCEPT !.results = Append(@, res)] IN
  IF s.cmd = "ensure" /\ s.call < MaxEnsureCalls
  THEN [t EXCEPT !.pc = "inspect", !.i = 1, !.call = @ + 1]
  ELSE [t EXCEPT !.pc = "done"]

\* The loop over Volumes() moves on, or the function returns nil.
StoreNextVolume(s) ==
  IF s.i < Len(Volumes) THEN [s EXCEPT !.pc = IF s.cmd = "ensure" THEN "inspect" ELSE "remove",
                                       !.i = @ + 1]
  ELSE IF s.cmd = "ensure" THEN StoreReturn(s, "nil")
  ELSE [s EXCEPT !.pc = "removed"]

\* ensureVolume: VolumeInspect; no error means the volume is there. The call
\* fails when the volume is absent and may fail for another reason.
EnsureInspect ==
  /\ store.pc = "inspect"
  /\ \/ /\ store.vols[Volumes[store.i]].present
        /\ store' = StoreNextVolume(store)
     \/ store' = [store EXCEPT !.pc = "create"]
  /\ UNCHANGED <<target, clock, kvars, dk, pods, inv, runs, att, cli, desc, img, conc>>

\* ensureVolume: VolumeCreate with the managed-by label. The engine hands back
\* a volume that already has the name as it is.
EnsureCreate ==
  LET n == Volumes[store.i]
      s == [store EXCEPT !.creates[n] = Append(@, [call |-> store.call, label |-> ManagedBy,
                                                  existed |-> store.vols[n].present])] IN
  /\ store.pc = "create"
  /\ \/ store' = StoreReturn(s, "CreateError")
     \/ store' = StoreNextVolume([s EXCEPT !.vols[n] = IF @.present THEN @ ELSE Present(ManagedBy)])
  /\ UNCHANGED <<target, clock, kvars, dk, pods, inv, runs, att, cli, desc, img, conc>>

\* Clean: the client is made from the environment.
CleanConnect ==
  /\ store.pc = "connect"
  /\ \/ store' = StoreReturn(store, "ConnectError")
     \/ store' = [store EXCEPT !.pc = "remove"]
  /\ UNCHANGED <<target, clock, kvars, dk, pods, inv, runs, att, cli, desc, img, conc>>

\* Clean that goes on after a removal failed.
CleanRemove_ignoring ==
  LET n == Volumes[store.i] IN
  /\ store.pc = "remove"
  /\ \/ store' = StoreNextVolume([store EXCEPT !.removes[n] = Append(@, [force |-> TRUE, ok |-> FALSE])])
     \/ store' = StoreNextVolume([store EXCEPT !.removes[n] = Append(@, [force |-> TRUE, ok |-> TRUE]),
                                              !.vols[n] = Absent])
  /\ UNCHANGED <<target, clock, kvars, dk, pods, inv, runs, att, cli, desc, img, conc>>

\* Clean: VolumeRemove with force for each volume; the first failure (a volume
\* in use, say) is returned.
CleanRemove ==
  LET n == Volumes[store.i] IN
  /\ store.pc = "remove"
  /\ \/ store' = StoreReturn([store EXCEPT !.removes[n] = Append(@, [force |-> TRUE, ok |-> FALSE])],
                             "RemoveError")
     \/ store' = StoreNextVolume([store EXCEPT !.removes[n] = Append(@, [force |-> TRUE, ok |-> TRUE]),
                                              !.vols[n] = Absent])
  /\ UNCHANGED <<target, clock, kvars, dk, pods, inv, runs, att, cli, desc, img, conc>>

\* newStoreCleanCmd: Clean returned nil, "Store volumes removed." is printed.
CleanReport ==
  /\ store.pc = "removed"
  /\ store' = StoreReturn([store EXCEPT !.printed = TRUE], "nil")
  /\ UNCHANGED <<target, clock, kvars, dk, pods, inv, runs, att, cli, desc, img, conc>>

NextStore ==
  \/ EnsureInspect
  \/ EnsureCreate
  \/ CleanConnect
  \/ CleanRemove
  \/ CleanReport

SpecStore == InitStore /\ [][NextStore]_vars

\* --------------------------------------------------- the session descriptor
\* A corev1.SecurityContext; "unset" is a nil pointer field.
NoContext ==
  [present |-> FALSE, runAsNonRoot |-> "unset", runAsUser |-> "unset",
   allowPrivilegeEscalation |-> "unset", seccomp |-> "unset",
   capAdd |-> {}, capDrop |-> {}, privileged |-> "unset"]

EmptyContext == [NoContext EXCEPT !.present = TRUE]

\* SecurityContextForProfile that reads restricted as baseline.
SecurityContextForProfile_lax(profile) ==
  CASE profile \in {"general", ""} ->
         [sc |-> [EmptyContext EXCEPT !.runAsNonRoot = "false"], err |-> ""]
    [] profile \in {"baseline", "restricted"} -> [sc |-> NoContext, err |-> ""]
    [] profile = "netadmin" ->
         [sc |-> [EmptyContext EXCEPT !.capAdd = {"NET_ADMIN", "NET_RAW"}], err |-> ""]
    [] profile = "sysadmin" -> [sc |-> [EmptyContext EXCEPT !.privileged = "true"], err |-> ""]
    [] OTHER -> [sc |-> NoContext, err |-> "UnknownProfile"]

SecurityContextForProfile(profile) ==
  CASE profile \in {"general", ""} ->
         [sc |-> [EmptyContext EXCEPT !.runAsNonRoot = "false"], err |-> ""]
    [] profile = "baseline" -> [sc |-> NoContext, err |-> ""]
    [] profile = "restricted" ->
         [sc |-> [EmptyContext EXCEPT !.runAsNonRoot = "true", !.runAsUser = "65534",
                                      !.allowPrivilegeEscalation = "false",
                                      !.seccomp = "RuntimeDefault", !.capDrop = {"ALL"}],
          err |-> ""]
    [] profile = "netadmin" ->
         [sc |-> [EmptyContext EXCEPT !.capAdd = {"NET_ADMIN", "NET_RAW"}], err |-> ""]
    [] profile = "sysadmin" -> [sc |-> [EmptyContext EXCEPT !.privileged = "true"], err |-> ""]
    [] OTHER -> [sc |-> NoContext, err |-> "UnknownProfile"]

\* What opts.Profile may hold: a supported name, nothing, or something else.
ProfileNames == ValidProfiles \cup {"", "bogus"}

ReservedPaths == {"/nix/store", "/nix/var"}

MountPaths == {"/data", "/nix/store"}

\* A container's mounts as the engine reports them (types.MountPoint).
MountPoints ==
  {[type |-> t, destination |-> d, name |-> "vol", source |-> "/host", rw |-> r] :
     t \in {"volume", "bind", "tmpfs", "npipe"}, d \in MountPaths, r \in BOOLEAN}

\* A container's volume mounts in a pod spec (corev1.VolumeMount).
VolumeMounts ==
  {[name |-> "vol", mountPath |-> d, subPath |-> s, subPathExpr |-> x] :
     d \in MountPaths, s \in {"", "sub"}, x \in {"", "$(POD)"}}

\* Sets of mounts with one mount per path.
OnePerDestination(S) ==
  {ms \in SUBSET S : \A a, b \in ms : a.destination = b.destination => a = b}

OnePerMountPath(S) ==
  {ms \in SUBSET S : \A a, b \in ms : a.mountPath = b.mountPath => a = b}

\* targetMounts: the target's mounts for the sidecar, without the paths the
\* sidecar uses itself and without mount types it does not know.
targetMounts(mps) ==
  {[type |-> mp.type, target |-> mp.destination, readOnly |-> ~mp.rw,
    source |-> CASE mp.type = "volume" -> mp.name
                 [] mp.type = "bind" -> mp.source
                 [] OTHER -> ""] :
     mp \in {x \in mps : x.destination \notin ReservedPaths
                         /\ x.type \in {"volume", "bind", "tmpfs"}}}

\* The two store volumes every sidecar mounts.
StoreMounts ==
  {[type |-> "volume", target |-> "/nix/store", readOnly |-> FALSE, source |-> NixStoreVolume],
   [type |-> "volume", target |-> "/nix/var", readOnly |-> FALSE, source |-> NixVarVolume]}

Peer(id) == <<"container", id>>

Private == <<"private">>

\* DockerExec's IPC mode that always joins the target.
IpcModeFor_always(targetIpc, targetID) == Peer(targetID)

\* DockerExec: the target's IPC namespace is joined only if the target allows it.
IpcModeFor(targetIpc, targetID) ==
  IF targetIpc # "" /\ targetIpc # "shareable" THEN Private ELSE Peer(targetID)

TargetIDs == {"app-id", "db-id"}

TargetIpcModes == {"", "shareable", "private", "host"}

NoDescriptor ==
  [mounts |-> {}, sc |-> NoContext, net |-> << >>, pid |-> << >>, ipc |-> << >>]

\* The point of DockerExec, KubernetesExec and KubernetesPod where the
\* descriptor of a new session is put together.
Descriptor(rt, share, p, id, ipc, mps, vms) ==
  [rt |-> rt, pc |-> IF rt = "docker" THEN "hostConfig"
                     ELSE IF rt = "kubernetes" THEN "volumeMounts" ELSE "profile",
   shareVolumes |-> share, profile |-> p, targetID |-> id, targetIpc |-> ipc,
   mountPoints |-> mps, volumeMounts |-> vms, d |-> NoDescriptor, err |-> ""]

\* The mounts a local-engine target may have.
TargetMountPoints ==
  OnePerDestination(MountPoints)
    \cup {{[type |-> "volume", destination |-> "/nix/var", name |-> "vol",
            source |-> "/host", rw |-> TRUE]}}

InitDescriptor ==
  /\ Elsewhere
  /\ cli = NoCli
  /\ store = NoStore
  /\ img = NoImg
  /\ conc = NoConc
  /\ \/ \E share \in BOOLEAN, id \in TargetIDs, ipc \in TargetIpcModes, mps \in TargetMountPoints :
          desc = Descriptor("docker", share, "", id, ipc, mps, {})
     \/ \E share \in BOOLEAN, p \in ProfileNames, vms \in OnePerMountPath(VolumeMounts) :
          desc = Descriptor("kubernetes", share, p, "app-id", "", {}, vms)
     \/ \E p \in ProfileNames :
          desc = Descriptor("pod", FALSE, p, "app-id", "", {}, {})

\* DockerExec: the host configuration with the namespace modes and the store's
\* volumes.
DescHostConfig ==
  /\ desc.pc = "hostConfig"
  /\ desc' = [desc EXCEPT !.pc = "shared",
                          !.d.net = Peer(desc.targetID),
                          !.d.pid = Peer(desc.targetID),
                          !.d.ipc = IpcModeFor(desc.targetIpc, desc.targetID),
                          !.d.mounts = StoreMounts]
  /\ UNCHANGED <<target, clock, kvars, dk, pods, inv, runs, att, cli, store, img, conc>>

\* DockerExec: the target's mounts are appended when volumes are shared.
DescSharedMounts ==
  /\ desc.pc = "shared"
  /\ desc' = [desc EXCEPT !.pc = "create",
                          !.d.mounts = IF desc.shareVolumes
                                       THEN @ \cup targetMounts(desc.mountPoints) ELSE @]
  /\ UNCHANGED <<target, clock, kvars, dk, pods, inv, runs, att, cli, store, img, conc>>

\* KubernetesExec: the target container's volume mounts without a sub-path
\* are copied when volumes are shared.
DescVolumeMounts ==
  /\ desc.pc = "volumeMounts"
  /\ desc' = [desc EXCEPT !.pc = "profile",
                          !.d.mounts = IF desc.shareVolumes
                                       THEN {vm \in desc.volumeMounts :
                                               vm.subPath = "" /\ vm.subPathExpr = ""}
                                       ELSE {}]
  /\ UNCHANGED <<target, clock, kvars, dk, pods, inv, runs, att, cli, store, img, conc>>

\* KubernetesExec and KubernetesPod: the profile's security context is set on
\* the container, or the function returns the error.
DescProfile ==
  LET r == SecurityContextForProfile(desc.profile) IN
  /\ desc.pc = "profile"
  /\ IF r.err # "" THEN desc' = [desc EXCEPT !.pc = "failed", !.err = r.err]
     ELSE desc' = [desc EXCEPT !.pc = "create",
                               !.d.sc = IF r.sc.present THEN r.sc ELSE @]
  /\ UNCHANGED <<target, clock, kvars, dk, pods, inv, runs, att, cli, store, img, conc>>

\* ContainerCreate, UpdateEphemeralContainers or Pods().Create: the descriptor
\* is submitted.
DescSubmit ==
  /\ desc.pc = "create"
  /\ desc' = [desc EXCEPT !.pc = "submitted"]
  /\ UNCHANGED <<target, clock, kvars, dk, pods, inv, runs, att, cli, store, img, conc>>

NextDescriptor ==
  \/ DescHostConfig
  \/ DescSharedMounts
  \/ DescVolumeMounts
  \/ DescProfile
  \/ DescSubmit

SpecDescriptor == InitDescriptor /\ [][NextDescriptor]_vars

\* ------------------------------------------------------------- debux image
\* The names DockerImage gives its two containers for the image "app".
ImageTargetName == "debux-image-target-app"

ImageDebugName == "debux-image-app"

\* Containers a previous run may have left under the two names.
StaleTargets == {{}, {[id |-> 1, name |-> ImageTargetName, from |-> "target", state |-> "created"]}}

StaleDebugs ==
  {{}} \cup {{[id |-> 2, name |-> ImageDebugName, from |-> "debug", state |-> s]} :
               s \in {"created", "running", "exited"}}

FirstNewID == 3

NoID == 0

\* DockerImage is entered.
InitImage ==
  /\ Elsewhere
  /\ cli = NoCli
  /\ desc = NoDesc
  /\ store = NoStore
  /\ conc = NoConc
  /\ \E ar \in BOOLEAN, local \in BOOLEAN, st \in StaleTargets, sd \in StaleDebugs :
       img = [pc |-> "inspectImage", autoRemove |-> ar, imageLocal |-> local,
              cs |-> st \cup sd, nextID |-> FirstNewID,
              targetID |-> NoID, debugID |-> NoID, deferred |-> << >>,
              starts |-> {}, copies |-> {}, copied |-> FALSE, result |-> "none"]

ImgNamed(s, n) == {c \in s.cs : c.name = n}

ImgByID(s, id) == {c \in s.cs : c.id = id}

\* ContainerRemove with force, its error ignored: the container is gone, or
\* the call failed and it is still there.
ImgRemoved(s, victims) == {[s EXCEPT !.cs = @ \ victims], s}

\* The deferred removals run, last registered first; AutoRemove leaves the
\* debug container's removal to the engine once it has run.
RECURSIVE ImgUnwind(_, _)
ImgUnwind(S, ds) ==
  IF ds = << >> THEN S
  ELSE ImgUnwind(UNION {ImgRemoved(s, ImgByID(s, ds[Len(ds)])) : s \in S},
                 SubSeq(ds, 1, Len(ds) - 1))

\* DockerImage returns res.
ImgReturn(s, res) ==
  \E t \in ImgUnwind({s}, s.deferred) :
    img' = [t EXCEPT !.pc = "done", !.deferred = << >>, !.result = res]

\* ImageInspectWithRaw, and EnsureImage when the image is not there.
ImgInspectImage ==
  /\ img.pc = "inspectImage"
  /\ \/ img.imageLocal /\ img' = [img EXCEPT !.pc = "createTarget"]
     \/ img' = [img EXCEPT !.pc = "createTarget", !.imageLocal = TRUE]
     \/ ImgReturn(img, "ImageNotFound")
  /\ UNCHANGED <<target, clock, kvars, dk, pods, inv, runs, att, cli, desc, store, conc>>

\* A stale container of the target's name is removed, and a container is
\* created from the target image with the command "true"; its removal is
\* deferred.
ImgCreateTarget ==
  /\ img.pc = "createTarget"
  /\ \E s \in ImgRemoved(img, ImgNamed(img, ImageTargetName)) :
       \/ ImgReturn(s, "CreateError")
       \/ /\ ImgNamed(s, ImageTargetName) = {}
          /\ img' = [s EXCEPT !.pc = "copyFrom",
                              !.cs = @ \cup {[id |-> s.nextID, name |-> ImageTargetName,
                                              from |-> "target", state |-> "created"]},
                              !.targetID = s.nextID, !.nextID = @ + 1,
                              !.deferred = Append(@, s.nextID)]
  /\ UNCHANGED <<target, clock, kvars, dk, pods, inv, runs, att, cli, desc, store, conc>>

\* CopyFromContainer(targetID, "/"): the stream of the target's filesystem.
ImgCopyFrom ==
  /\ img.pc = "copyFrom"
  /\ \/ ImgReturn(img, "CopyError")
     \/ \E c \in ImgByID(img, img.targetID) :
          img' = [img EXCEPT !.pc = "ensure", !.copies = @ \cup {c}]
  /\ UNCHANGED <<target, clock, kvars, dk, pods, inv, runs, att, cli, desc, store, conc>>

\* dbximage.EnsureImage and store.EnsureVolumes.
ImgEnsure ==
  /\ img.pc = "ensure"
  /\ \/ ImgReturn(img, "ImageError")
     \/ ImgReturn(img, "VolumeError")
     \/ img' = [img EXCEPT !.pc = "createDebug"]
  /\ UNCHANGED <<target, clock, kvars, dk, pods, inv, runs, att, cli, desc, store, conc>>

\* A stale container of the debug name is removed and the debug container is
\* created; its removal is deferred unless AutoRemove is set.
ImgCreateDebug ==
  /\ img.pc = "createDebug"
  /\ \E s \in ImgRemoved(img, ImgNamed(img, ImageDebugName)) :
       \/ ImgReturn(s, "CreateError")
       \/ /\ ImgNamed(s, ImageDebugName) = {}
          /\ img' = [s EXCEPT !.pc = "copyTo",
                              !.cs = @ \cup {[id |-> s.nextID, name |-> ImageDebugName,
                                              from |-> "debug", state |-> "created"]},
                              !.debugID = s.nextID, !.nextID = @ + 1,
                              !.deferred = IF s.autoRemove THEN @ ELSE Append(@, s.nextID)]
  /\ UNCHANGED <<target, clock, kvars, dk, pods, inv, runs, att, cli, desc, store, conc>>

\* mkdirViaTar and CopyToContainer(debugID, "/target").
ImgCopyTo ==
  /\ img.pc = "copyTo"
  /\ \/ ImgReturn(img, "CopyError")
     \/ img' = [img EXCEPT !.pc = "run", !.copied = TRUE]
  /\ UNCHANGED <<target, clock, kvars, dk, pods, inv, runs, att, cli, desc, store, conc>>

\* The container a ContainerStart(id) call sets running.
ImgStarted(s, id) ==
  [s EXCEPT !.starts = @ \cup {id},
            !.cs = {IF c.id = id THEN [c EXCEPT !.state = "running"] ELSE c : c \in @}]

\* runInteractiveContainer that is handed the target's container.
ImgRun_target ==
  /\ img.pc = "run"
  /\ \/ ImgReturn(img, "AttachError")
     \/ ImgReturn(img, "StartError")
     \/ img' = [ImgStarted(img, img.targetID) EXCEPT !.pc = "streaming"]
  /\ UNCHANGED <<target, clock, kvars, dk, pods, inv, runs, att, cli, desc, store, conc>>

\* runInteractiveContainer(debugID): ContainerAttach, then ContainerStart.
ImgRun ==
  /\ img.pc = "run"
  /\ \/ ImgReturn(img, "AttachError")
     \/ ImgReturn(img, "StartError")
     \/ img' = [ImgStarted(img, img.debugID) EXCEPT !.pc = "streaming"]
  /\ UNCHANGED <<target, clock, kvars, dk, pods, inv, runs, att, cli, desc, store, conc>>

\* The debug container exits; with AutoRemove the engine removes it.
ImgExits(s) ==
  [s EXCEPT !.cs = IF s.autoRemove THEN @ \ ImgByID(s, s.debugID)
                   ELSE {IF c.id = s.debugID THEN [c EXCEPT !.state = "exited"] ELSE c : c \in @}]

\* The shell ends or the session is interrupted: runInteractiveContainer
\* returns and DockerImage with it.
ImgSessionEnds ==
  /\ img.pc = "streaming"
  /\ \/ ImgReturn(ImgExits(img), "nil")
     \/ ImgReturn(img, "Cancelled")
  /\ UNCHANGED <<target, clock, kvars, dk, pods, inv, runs, att, cli, desc, store, conc>>

NextImage ==
  \/ ImgInspectImage
  \/ ImgCreateTarget
  \/ ImgCopyFrom
  \/ ImgEnsure
  \/ ImgCreateDebug
  \/ ImgCopyTo
  \/ ImgRun
  \/ ImgSessionEnds

SpecImage == InitImage /\ [][NextImage]_vars

\* ------------------------------------------- the local engine, closely
\* Invocations of `debux exec docker://app`, one after the other, on one engine.
InitDocker == Init /\ target = "docker"

NextDocker ==
  \/ Start
  \/ Interrupt
  \/ DockerContainerDies
  \/ DockerInspectTarget
  \/ DockerLookup
  \/ DockerEnsureImage
  \/ DockerEnsureVolumes
  \/ DockerRemoveStale
  \/ DockerCreateCall
  \/ DockerCreateReturn
  \/ DockerStart
  \/ ExecInContainer
  \/ ShellEnds

SpecDocker == InitDocker /\ [][NextDocker]_vars

\* ------------------------------------------- the ephemeral-container watch, closely
\* One invocation of `debux exec k8s://...` on a pod that may hold the session
\* of an earlier second, with a watch stream that carries events of every type.
EarlierStatuses == {Running, Waiting("ContainerCreating"), Terminated("Completed", 0)}

InitEphemeral ==
  /\ InitWatch
  /\ target = "kubernetes"

InitEphemeralAfterOne ==
  /\ target = "kubernetes"
  /\ clock = 1
  /\ \E s \in EarlierStatuses :
       kpod = [spec |-> <<0>>, status |-> [n \in Names |-> IF n = 0 THEN s ELSE None]]
  /\ rv = 1
  /\ klog = << >>
  /\ logBase = 1
  /\ dk = [target |-> "running", cs |-> {}]
  /\ pods = {}
  /\ inv = InitInv
  /\ cli = NoCli
  /\ desc = NoDesc
  /\ store = NoStore
  /\ img = NoImg
  /\ conc = NoConc
  /\ runs = 0
  /\ att = NoAtt

\* Event types other than Modified: the pod re-added or deleted (the event
\* carries the pod as last known), or an error (the object is no pod).
OtherTypes == {"ADDED", "DELETED", "ERROR"}

WatchOtherEvent ==
  /\ rv < MaxLog
  /\ inv.pc = "kWaiting"
  /\ \E t \in OtherTypes :
       klog' = Append(klog, Event(t, IF t = "ERROR" THEN [n \in Names |-> None]
                                     ELSE kpod.status))
  /\ rv' = rv + 1
  /\ UNCHANGED <<units, target, clock, kpod, logBase, dk, pods, inv, runs, att>>

NextEphemeral ==
  \/ KubeletStatus
  \/ WatchOtherEvent
  \/ StartWatch
  \/ Interrupt
  \/ K8sGetPod
  \/ K8sUpdateCall
  \/ K8sUpdateReturn
  \/ K8sWatchStart
  \/ K8sWatchEvent
  \/ WatchStreamCloses
  \/ K8sWatchClosedRead
  \/ K8sWatchTimeout
  \/ K8sWatchCancelled
  \/ ExecInPod
  \/ ShellEnds

SpecEphemeral ==
  /\ InitEphemeral \/ InitEphemeralAfterOne
  /\ [][NextEphemeral]_vars
  /\ WF_vars(K8sWatchTimeout)

\* ------------------------------------------- two invocations on one backend
\* `debux exec` run by two processes, A and B, against one engine or one pod;
\* they may overlap or follow each other.  The steps are the calls that read or
\* change the sessions: the target's inspect or Get with the lookup, the
\* removal, the create, the start or the readiness wait, and the attach.
Procs == {"A", "B"}

\* docker: the containers addressed; kubernetes: the containers of the pod.
TargetNames == {"app", "db"}

NoWant == ""                 \* k8s://ns/pod: no container segment

\* What an address may name on the backend.
Wants(rt) == IF rt = "kubernetes" THEN TargetNames \cup {NoWant} ELSE TargetNames

\* targetContainer: the address's, or pod.Spec.Containers[0].Name.
TargetContainer(want) == IF want = NoWant THEN "app" ELSE want

\* containerName := fmt.Sprintf("debux-%s", targetName)
SidecarName(targetName) == <<"debux-", targetName>>

IdleProc ==
  [pc |-> "idle", want |-> NoWant, fresh |-> FALSE, name |-> NoName, made |-> NoName,
   getRV |-> 0, snap |-> << >>, creates |-> 0, reused |-> FALSE, gotFor |-> NoWant,
   result |-> "none"]

InitConc ==
  /\ Elsewhere
  /\ cli = NoCli
  /\ desc = NoDesc
  /\ store = NoStore
  /\ img = NoImg
  /\ \E rt \in Runtimes :
       conc = [pc |-> "run", rt |-> rt, procs |-> [p \in Procs |-> IdleProc],
               cs |-> {}, nextID |-> 1,
               pod |-> [spec |-> << >>, status |-> [n \in Names |-> None],
                        for |-> [n \in Names |-> NoWant]],
               rv |-> 0, clock |-> 0]

ConcNamed(n) == {c \in conc.cs : c.name = n}

ConcDone(me, res) == [me EXCEPT !.pc = "done", !.result = res, !.getRV = 0, !.snap = << >>]

\* A process enters runExec with its address and flags.
ConcStart ==
  /\ conc.pc = "run"
  /\ \E p \in Procs : \E w \in Wants(conc.rt) : \E f \in BOOLEAN :
       /\ conc.procs[p].pc = "idle"
       /\ conc' = [conc EXCEPT !.procs[p] =
                     [IdleProc EXCEPT !.pc = IF conc.rt = "docker" THEN "dInspect" ELSE "kGet",
                                      !.want = w, !.fresh = f]]
  /\ UNCHANGED <<target, clock, kvars, dk, pods, inv, runs, att, cli, desc, store, img>>

\* time.Now().Unix() moves on.
ConcTick ==
  /\ conc.pc = "run"
  /\ conc.rt = "kubernetes"
  /\ conc.clock < MaxClock
  /\ conc' = [conc EXCEPT !.clock = @ + 1]
  /\ UNCHANGED <<target, clock, kvars, dk, pods, inv, runs, att, cli, desc, store, img>>

\* A running session stops by itself.
ConcSessionDies ==
  /\ conc.pc = "run"
  /\ \/ \E c \in conc.cs :
          /\ c.state = "running"
          /\ conc' = [conc EXCEPT !.cs = (@ \ {c}) \cup {[c EXCEPT !.state = "exited"]}]
     \/ \E n \in SeqToSet(conc.pod.spec) :
          /\ conc.pod.status[n].state = "running"
          /\ conc' = [conc EXCEPT !.pod.status[n] = Terminated("Completed", 0), !.rv = @ + 1]
  /\ UNCHANGED <<target, clock, kvars, dk, pods, inv, runs, att, cli, desc, store, img>>

\* DockerExec: inspect the target; then the lookup unless --fresh.
ConcInspectTarget ==
  /\ conc.pc = "run"
  /\ \E p \in Procs :
       LET me == conc.procs[p] IN
       /\ me.pc = "dInspect"
       /\ \/ conc' = [conc EXCEPT !.procs[p] = ConcDone(me, "InspectTargetError")]
          \/ conc' = [conc EXCEPT !.procs[p] =
                        [me EXCEPT !.pc = IF TryReuse(me.fresh) THEN "dLookup" ELSE "dRemove",
                                   !.name = SidecarName(me.want)]]
  /\ UNCHANGED <<target, clock, kvars, dk, pods, inv, runs, att, cli, desc, store, img>>

\* DockerExec: inspect the sidecar's name; reuse it when it is running.
ConcLookup ==
  /\ conc.pc = "run"
  /\ \E p \in Procs :
       LET me == conc.procs[p] IN
       /\ me.pc = "dLookup"
       /\ \/ conc' = [conc EXCEPT !.procs[p] = [me EXCEPT !.pc = "dRemove"]]
          \/ \E c \in ConcNamed(me.name) :
               /\ c.state = "running"
               /\ conc' = [conc EXCEPT !.procs[p] =
                             [me EXCEPT !.pc = "attached", !.reused = TRUE, !.made = c.id,
                                        !.gotFor = c.target]]
  /\ UNCHANGED <<target, clock, kvars, dk, pods, inv, runs, att, cli, desc, store, img>>

\* DockerExec: the forced removal by name, best effort.
ConcRemove ==
  /\ conc.pc = "run"
  /\ \E p \in Procs :
       LET me == conc.procs[p] IN
       /\ me.pc = "dRemove"
       /\ \/ conc' = [conc EXCEPT !.procs[p] = [me EXCEPT !.pc = "dCreate"]]
          \/ conc' = [conc EXCEPT !.procs[p] = [me EXCEPT !.pc = "dCreate"],
                                  !.cs = @ \ ConcNamed(me.name)]
  /\ UNCHANGED <<target, clock, kvars, dk, pods, inv, runs, att, cli, desc, store, img>>

\* DockerExec: ContainerCreate; the engine refuses a name in use.
ConcCreate ==
  /\ conc.pc = "run"
  /\ \E p \in Procs :
       LET me == conc.procs[p]
           sent == [me EXCEPT !.creates = @ + 1] IN
       /\ me.pc = "dCreate"
       /\ \/ conc' = [conc EXCEPT !.procs[p] = ConcDone(sent, "CreateError")]
          \/ /\ ConcNamed(me.name) = {}
             /\ conc' = [conc EXCEPT
                  !.procs[p] = [sent EXCEPT !.pc = "dStart", !.made = conc.nextID],
                  !.cs = @ \cup {[id |-> conc.nextID, name |-> me.name, target |-> me.want,
                                  state |-> "created", by |-> p]},
                  !.nextID = @ + 1]
  /\ UNCHANGED <<target, clock, kvars, dk, pods, inv, runs, att, cli, desc, store, img>>

\* DockerExec: ContainerStart by ID, then execInContainer; on a start error the
\* removal by ID, best effort.
ConcStartContainer ==
  /\ conc.pc = "run"
  /\ \E p \in Procs :
       LET me == conc.procs[p] IN
       /\ me.pc = "dStart"
       /\ \/ conc' = [conc EXCEPT !.procs[p] = ConcDone(me, "StartError")]
          \/ conc' = [conc EXCEPT !.procs[p] = ConcDone(me, "StartError"),
                                  !.cs = {c \in @ : c.id # me.made}]
          \/ \E c \in conc.cs :
               /\ c.id = me.made /\ c.state = "created"
               /\ conc' = [conc EXCEPT !.procs[p] = [me EXCEPT !.pc = "attached"],
                                       !.cs = (@ \ {c}) \cup {[c EXCEPT !.state = "running"]}]
  /\ UNCHANGED <<target, clock, kvars, dk, pods, inv, runs, att, cli, desc, store, img>>

\* KubernetesExec: Get the pod, then findRunningDebuxContainer unless --fresh.
ConcGetPod ==
  /\ conc.pc = "run"
  /\ \E p \in Procs :
       LET me == conc.procs[p]
           existing == findRunningDebuxContainer(conc.pod) IN
       /\ me.pc = "kGet"
       /\ \/ conc' = [conc EXCEPT !.procs[p] = ConcDone(me, "GetPodError")]
          \/ IF TryReuse(me.fresh) /\ existing # NoName
             THEN conc' = [conc EXCEPT !.procs[p] =
                             [me EXCEPT !.pc = "attached", !.reused = TRUE, !.made = existing,
                                        !.gotFor = conc.pod.for[existing]]]
             ELSE conc' = [conc EXCEPT !.procs[p] =
                             [me EXCEPT !.pc = "kUpdate", !.name = conc.clock,
                                        !.getRV = conc.rv, !.snap = conc.pod.spec]]
  /\ UNCHANGED <<target, clock, kvars, dk, pods, inv, runs, att, cli, desc, store, img>>

\* KubernetesExec: UpdateEphemeralContainers with the pod as it was read; the
\* API server refuses a stale resourceVersion and a name in use.
ConcUpdate ==
  /\ conc.pc = "run"
  /\ \E p \in Procs :
       LET me == conc.procs[p]
           sent == [me EXCEPT !.creates = @ + 1] IN
       /\ me.pc = "kUpdate"
       /\ \/ conc' = [conc EXCEPT !.procs[p] = ConcDone(sent, "UpdateError")]
          \/ /\ me.getRV = conc.rv
             /\ me.name \notin SeqToSet(me.snap)
             /\ conc' = [conc EXCEPT
                  !.procs[p] = [sent EXCEPT !.pc = "kWait", !.made = me.name],
                  !.pod.spec = Append(me.snap, me.name),
                  !.pod.for[me.name] = TargetContainer(me.want),
                  !.rv = @ + 1]
  /\ UNCHANGED <<target, clock, kvars, dk, pods, inv, runs, att, cli, desc, store, img>>

\* The kubelet starts an ephemeral container.
ConcKubeletStarts ==
  /\ conc.pc = "run"
  /\ \E n \in SeqToSet(conc.pod.spec) :
       /\ conc.pod.status[n] = None
       /\ Running \in NextStatus(None)
       /\ conc' = [conc EXCEPT !.pod.status[n] = Running, !.rv = @ + 1]
  /\ UNCHANGED <<target, clock, kvars, dk, pods, inv, runs, att, cli, desc, store, img>>

\* waitForEphemeralContainer, by its outcome.
ConcWait ==
  /\ conc.pc = "run"
  /\ \E p \in Procs :
       LET me == conc.procs[p]
           cs == conc.pod.status[me.made] IN
       /\ me.pc = "kWait"
       /\ \/ conc' = [conc EXCEPT !.procs[p] = ConcDone(me, "Timeout")]
          \/ /\ cs.state = "running"
             /\ conc' = [conc EXCEPT !.procs[p] = [me EXCEPT !.pc = "attached"]]
          \/ /\ cs.state = "terminated"
             /\ conc' = [conc EXCEPT !.procs[p] = ConcDone(me, "Terminated")]
  /\ UNCHANGED <<target, clock, kvars, dk, pods, inv, runs, att, cli, desc, store, img>>

\* The shell ends; the session stays.
ConcShellEnds ==
  /\ conc.pc = "run"
  /\ \E p \in Procs :
       LET me == conc.procs[p] IN
       /\ me.pc = "attached"
       /\ conc' = [conc EXCEPT !.procs[p] = ConcDone(me, "ok")]
  /\ UNCHANGED <<target, clock, kvars, dk, pods, inv, runs, att, cli, desc, store, img>>

NextConc ==
  \/ ConcStart
  \/ ConcTick
  \/ ConcSessionDies
  \/ ConcInspectTarget
  \/ ConcLookup
  \/ ConcRemove
  \/ ConcCreate
  \/ ConcStartContainer
  \/ ConcGetPod
  \/ ConcUpdate
  \/ ConcKubeletStarts
  \/ ConcWait
  \/ ConcShellEnds

SpecConc == InitConc /\ [][NextConc]_vars

\* ------------------------------------------------------------ properties
Attaching == inv.pc \in {"attach", "attached"}

\* Failures that end an invocation before it reaches the create call.
SetupFailures ==
  {"ClientError", "GetPodError", "DockerClientError", "InspectTargetError",
   "TargetNotRunning", "ImageError", "VolumeError"}

\* C1: without --fresh, an invocation whose lookup finds a running session goes
\* straight to attach: it issues no create (and opens no readiness watch).
C1_ReuseIssuesNoCreate ==
  (~inv.fresh /\ inv.hadRunning) =>
     /\ inv.creates = 0
     /\ inv.watches = 0
     /\ inv.reused
     /\ inv.pc \in {"attach", "attached", "done"}

C1_Witness ==
  /\ ~inv.fresh /\ inv.hadRunning /\ inv.pc = "done" /\ inv.attaches = 1 /\ inv.result = "ok"

C3_AtMostOneCreateAndAttach == inv.creates <= 1 /\ inv.attaches <= 1

C3_Witness == inv.pc = "done" /\ inv.creates = 1 /\ inv.result = "CreateError"

C5_AdmissionStripped ==
  /\ inv.stripped =>
       /\ inv.pc = "done" /\ inv.result = "AdmissionStripped"
       /\ inv.watches = 0 /\ inv.attaches = 0
  /\ inv.result = "AdmissionStripped" => (inv.stripped /\ inv.creates = 1)

C5_Witness == inv.pc = "done" /\ inv.result = "AdmissionStripped" /\ inv.stripped

\* C6: the watch starts right after the version the update returned: the
\* changes delivered so far are exactly the versions resp.rv+1 .. cursor, and
\* the stream still holds every later one, so no change emitted between the
\* update and the watch setup is skipped.
C6_WatchAnchoredAtUpdate ==
  (inv.pc = "kWaiting" \/ (inv.pc = "attach" /\ inv.runtime = "kubernetes" /\ ~inv.reused)) =>
     /\ inv.cursor = inv.resp.rv + inv.delivered
     /\ inv.cursor <= rv
     /\ logBase <= inv.cursor /\ logBase + Len(klog) = rv

\* The session became running before the watch was set up and is reported Ready.
C6_Witness ==
  /\ inv.pc = "attach" /\ inv.runtime = "kubernetes" /\ ~inv.reused /\ inv.sess = "Ready"
  /\ inv.rvAtWatch > inv.resp.rv
  /\ inv.cursor <= inv.rvAtWatch

C7_EnumeratedFatal ==
  {"ImagePullBackOff", "ErrImagePull", "InvalidImageName", "CrashLoopBackOff",
   "RunContainerError", "CreateContainerError", "CreateContainerConfigError"}

\* C7: once the watch has seen the session waiting with one of the seven fatal
\* reasons, the invocation has failed with that reason, without timing out and
\* without any attach.
C7_FatalWaitingFailsAtOnce ==
  (inv.lastSeen.state = "waiting" /\ inv.lastSeen.reason \in C7_EnumeratedFatal) =>
     /\ inv.pc = "done" /\ inv.result = "FailedToStart"
     /\ inv.detail.reason = inv.lastSeen.reason
     /\ inv.attaches = 0

C7_Witness ==
  /\ inv.result = "FailedToStart" /\ inv.lastSeen = Waiting("CreateContainerConfigError")

\* The change that follows the watch's cursor in the stream.
NextChange == klog[inv.cursor + 1 - logBase]

\* A decisive status was seen.
C8_Decided == inv.lastSeen.state \in {"running", "terminated"}

\* C8: events are taken in emission order and the first decisive status
\* decides: the event the watch takes is the change right after its cursor;
\* while the watch waits, no status seen was decisive; a running status makes
\* the session Ready; a terminated status fails with its reason and exit code;
\* and once a decisive status was seen nothing the invocation does changes
\* what it saw.
C8_FirstDecisiveStatusDecides ==
  /\ [](/\ inv.pc = "kWaiting" => ~C8_Decided
        /\ inv.lastSeen.state = "running" =>
             (inv.sess = "Ready" /\ inv.pc \in {"attach", "attached", "done"})
        /\ inv.lastSeen.state = "terminated" =>
             /\ inv.pc = "done" /\ inv.result = "Terminated" /\ inv.sess = "Terminated"
             /\ inv.detail = [reason |-> inv.lastSeen.reason, code |-> inv.lastSeen.code]
             /\ inv.attaches = 0)
  /\ [][(inv.pc = "kWaiting" /\ inv'.delivered = inv.delivered + 1) =>
          /\ inv'.cursor = inv.cursor + 1
          /\ NextChange.type = "MODIFIED" => inv'.lastSeen = NextChange.status[inv.name]]_vars
  /\ [][(C8_Decided /\ runs' = runs) =>
          (inv'.lastSeen = inv.lastSeen /\ inv'.sess = inv.sess)]_vars

C8_Witness ==
  /\ inv.result = "Terminated" /\ inv.detail = [reason |-> "Error", code |-> 1]
  /\ rv > inv.resp.rv

\* The lifecycle's edges; Absent -> Ready is the reuse of a running session.
C9_Edges ==
  {<<"Absent", "Creating">>, <<"Creating", "Waiting">>, <<"Creating", "Failed">>,
   <<"Waiting", "Ready">>, <<"Waiting", "Terminated">>, <<"Waiting", "Failed">>,
   <<"Absent", "Ready">>}

\* C9: within an invocation the session's state moves only along the
\* lifecycle's edges (Absent -> Ready only by reuse); an attach is pending or
\* was issued only in state Ready, reached by a lookup that saw the session
\* running, by a watch that saw it running, or by the engine's successful
\* start of the created container.
C9_AttachOnlyWhenReady ==
  /\ []((Attaching \/ inv.attaches > 0) =>
          /\ inv.sess = "Ready"
          /\ inv.reused => (inv.hadRunning /\ inv.creates = 0)
          /\ (~inv.reused /\ inv.runtime = "kubernetes") =>
               (inv.creates = 1 /\ inv.lastSeen.state = "running")
          /\ (~inv.reused /\ inv.runtime = "docker") => inv.creates = 1)
  /\ [][(runs' = runs /\ inv'.sess # inv.sess) =>
          /\ <<inv.sess, inv'.sess>> \in C9_Edges
          /\ (inv.sess = "Absent" /\ inv'.sess = "Ready") => inv'.reused]_vars

C9_Witness == inv.attaches = 1 /\ ~inv.reused /\ inv.sess = "Ready" /\ inv.pc = "done"
\* C10: every readiness timeout, of the ephemeral-container watch and of the
\* standalone-pod watch alike, carries a diagnosis (the latest status, or the
\* note that it could not be fetched) and never is a bare timeout message.
C10_TimeoutCarriesDiagnosis == inv.result = "Timeout" => inv.diag # "none"
\* The readiness watch of either mode is waiting in its select.
WatchWaiting == inv.pc \in {"kWaiting", "pWaiting"}

\* C11: the readiness watch always terminates: a waiting watch returns (on a
\* running or terminated session, a fatal waiting reason, the timeout or the
\* cancellation), whatever the backend emits and also after it closed the
\* event stream.
C11_WatchTerminates == WatchWaiting ~> ~WatchWaiting

\* The stream closed with the session still undecided, the loop read a zero
\* event and waits on: only the timeout or the cancellation can end it.
C11_Witness ==
  /\ WatchWaiting /\ inv.closed /\ inv.emptyReads = 1
  /\ ~inv.cancelled
  /\ ~ENABLED K8sWatchEvent /\ ~ENABLED PodWatchEvent

\* The local-engine transports: the hijacked connection of execInContainer and
\* runInteractiveContainer.
Hijacked == att.via \in {"exec", "run"}

\* C12: once the context is cancelled, an attached invocation returns, in every
\* phase of the attachment, also after local input has ended and the function
\* waits for the remaining backend output.
C12_CancelledAttachReturns == (inv.pc = "attached" /\ inv.cancelled) ~> (inv.pc = "done")

\* One of the three causes that end an attachment has occurred: the backend's
\* output channel closed, the backend is not running, local input ended.
EndCause == ~att.outOpen \/ ~att.alive \/ att.stdinEOF

\* C13: an attachment over the hijacked connection ends on the first of backend
\* output closed, backend not running, local input at end-of-stream: once one
\* has occurred the attach operation returns.
C13_EndCauseReturns == (Hijacked /\ Streaming /\ EndCause) ~> (att.pc = "returned")

\* C14: on every return of an attachment that set the terminal raw, on either
\* transport, the prior mode has been restored and then the emulator reset
\* sequence written.
C14_RestoreThenReset ==
  att.pc = "returned" /\ att.rawSet => att.cleanup = <<"restore", "reset">>

\* C15: when local input reaches end-of-stream during an attachment over the
\* hijacked connection, both copy tasks terminate and the restore/reset
\* sequence has run exactly once.
C15_InputEndStopsBothCopies ==
  (Hijacked /\ Streaming /\ att.stdinEOF)
    ~> /\ att.out = "done" /\ att.inp = "done"
       /\ att.rawSet => att.cleanup = <<"restore", "reset">>

\* C16: during an attachment the output copy can step whenever output is in
\* flight and the input copy whenever a keystroke is pending, whatever the
\* other is doing; and exactly these two tasks are active, three on a terminal.
C16_TwoIndependentTasks ==
  Streaming =>
    /\ att.out = "copying" /\ att.pendingOut > 0 => ENABLED OutputCopy
    /\ att.inp = "copying" /\ att.pendingIn > 0 => ENABLED InputCopy
    /\ Cardinality(att.tasks) = IF att.tty THEN 3 ELSE 2

\* C17: without a terminal no size is ever sent; on a terminal, on either
\* transport, a window size that differs from the one last sent is forwarded
\* while the session lasts.
C17_SizeChangesForwarded ==
  /\ [](~att.tty => att.sent = 0)
  /\ (Streaming /\ att.tty /\ att.sent # att.size) ~> (att.sent = att.size \/ ~Streaming)

\* C18: when the remote shell ended with a code other than 0, the attachment's
\* result is not the clean one, which stands for exit status 0.
C18_ExitCodePropagated == att.pc = "returned" /\ att.code # 0 => inv.result # "ok"

\* KubernetesPod returned before its Create had succeeded.
PodCreateFailed == inv.result \in {"ClientError", "ProfileError", "CreateError"}

\* C19: in standalone-pod mode no delete is issued while the invocation runs,
\* and at its return exactly one has been issued if the pod was created and
\* --keep is not set (timeout, cancellation, attach error or normal exit, the
\* context cancelled or not), none if --keep is set or the creation failed.
C19_PodDeletedOnce ==
  inv.runtime = "pod" =>
    inv.deletes = IF inv.pc = "done" /\ ~inv.keep /\ ~PodCreateFailed THEN 1 ELSE 0

\* A cancelled invocation returned from the readiness watch and issued its delete.
C19_Witness ==
  /\ inv.runtime = "pod" /\ inv.pc = "done"
  /\ inv.cancelled /\ inv.result = "Cancelled" /\ ~inv.keep
  /\ inv.deletes = 1

\* The results an invocation would return if it returned the error of a
\* best-effort cleanup: the stale container's removal, the pod's delete, the
\* terminal's restore.
CleanupErrors == {"RemoveError", "DeleteError", "RestoreError"}

\* C20 (as stated): what follows a best-effort cleanup is what follows its
\* success; for the removal of the stale session container, that ContainerCreate
\* finds the session's name free.
C20_SameAsIfCleanupSucceeded ==
  inv.pc = "dCreate" /\ ~inv.cancelled => Named(SessionName) = {}

\* C20 (amended): the error of a best-effort cleanup is never the invocation's
\* result, and after the removal of the stale container, failed or not, the
\* invocation is at ContainerCreate with no result yet.
C20_CleanupErrorNotReturned ==
  /\ inv.result \notin CleanupErrors
  /\ inv.pc \in {"dCreate", "dCreating"} => inv.result = "none" /\ inv.sess # "Failed"

\* The stale container outlived its removal and the create failed on its name;
\* or the pod outlived its delete and the invocation's result is the clean one.
C20_Witness ==
  \/ /\ inv.pc = "done" /\ inv.runtime = "docker" /\ inv.result = "CreateError"
     /\ ~inv.cancelled /\ Named(SessionName) # {}
  \/ /\ inv.pc = "done" /\ inv.runtime = "pod" /\ inv.result = "ok"
     /\ inv.deletes = 1 /\ PodNamed(inv.name) # {}

\* The address runExec parsed, when it had one and it is a cluster address:
\* what follows "k8s://".
CliRaw == IF Len(cli.args) = 0 THEN << >> ELSE cli.args[1]

IsK8sAddress == Len(CliRaw) >= 6 /\ SubSeq(CliRaw, 1, 6) = K8sSchema \o SchemaSep

K8sRest == SubSeq(CliRaw, 7, Len(CliRaw))

Slashes(s) == Cardinality({i \in 1..Len(s) : s[i] = "/"})

NoSlash(s) == Slashes(s) = 0

\* ParseTarget has been applied to an argument.
CliParsed == cli.pc \notin {"none", "start"} /\ Len(cli.args) = 1

\* C21: an invocation that fails on an invalid address, an unknown runtime or
\* an unknown security profile has made no backend call.
C21_ValidationBeforeBackend ==
  cli.pc = "done" /\ cli.result \in {"InvalidAddress", "UnknownRuntime", "UnknownProfile"}
    => cli.calls = 0

\* C28: a cluster address with at most two separators after the schema parses
\* to a kubernetes target whose fields are the segments unchanged: none gives
\* the name alone (empty for the wildcard) in namespace "default", one gives
\* namespace and name, two give namespace, name and container.
C28_ClusterSegments ==
  cli.pc = "parsed" /\ Len(cli.args) = 1 /\ IsK8sAddress /\ Slashes(K8sRest) <= 2 =>
    LET t == cli.target IN
    /\ t.runtime = "kubernetes"
    /\ NoSlash(t.name) /\ NoSlash(t.namespace) /\ NoSlash(t.container)
    /\ CASE Slashes(K8sRest) = 0 ->
              t.name = K8sRest /\ t.namespace = DefaultNamespace /\ t.container = << >>
         [] Slashes(K8sRest) = 1 ->
              t.namespace \o <<"/">> \o t.name = K8sRest /\ t.container = << >>
         [] OTHER ->
              t.namespace \o <<"/">> \o t.name \o <<"/">> \o t.container = K8sRest

\* A cluster address of three segments was parsed, none of them empty.
C28_Witness ==
  /\ cli.pc = "parsed" /\ Len(cli.args) = 1 /\ IsK8sAddress
  /\ cli.target.namespace = <<"a">> /\ cli.target.name = <<"a", "a">>
  /\ cli.target.container = <<"a">>

\* C29: the empty address, and a cluster address with more than three
\* segments after the schema, are refused as invalid and yield no target.
C29_InvalidAddresses ==
  CliParsed /\ (CliRaw = << >> \/ (IsK8sAddress /\ Slashes(K8sRest) >= 3)) =>
    cli.pc = "done" /\ cli.result = "InvalidAddress" /\ cli.target = NoTarget

\* A cluster address of four segments was refused.
C29_Witness ==
  /\ cli.pc = "done" /\ cli.result = "InvalidAddress"
  /\ IsK8sAddress /\ K8sRest = <<"a", "/", "a", "/", "a", "/", "a">>

\* C30: a non-empty address without "://" parses to a docker target whose name
\* is the whole address, with no namespace and no container.
C30_BareNameIsDocker ==
  cli.pc = "parsed" /\ Len(cli.args) = 1 /\ StrIndex(CliRaw, SchemaSep) = -1 /\ CliRaw # << >> =>
    cli.target = [runtime |-> "docker", name |-> CliRaw,
                  namespace |-> << >>, container |-> << >>]

\* A bare address that holds separators and a colon was parsed.
C30_Witness ==
  /\ cli.pc = "parsed" /\ CliRaw = <<"a", ":", "/", "a">>
  /\ cli.target.runtime = "docker" /\ cli.target.name = CliRaw

\* The managed volumes by name.
Managed == SeqToSet(Volumes)

\* EnsureVolumes was called twice, on managed volumes that were absent, and
\* returned nil both times.
EnsuredTwice ==
  /\ store.pc = "done" /\ store.cmd = "ensure"
  /\ \A n \in Managed : ~store.atStart[n].present
  /\ store.results = <<"nil", "nil">>

\* C22: two calls of EnsureVolumes in sequence on absent volumes make one
\* create call per managed volume in all and none in the second call; a create
\* call is issued only for a volume that does not exist, and carries the
\* managed-by label.
C22_CreateOnlyWhenAbsent ==
  store.cmd = "ensure" =>
    /\ EnsuredTwice => \A n \in Managed :
                         Len(store.creates[n]) = 1 /\ store.creates[n][1].call = 1
    /\ \A n \in Managed : \A k \in 1..Len(store.creates[n]) :
         ~store.creates[n][k].existed /\ store.creates[n][k].label = ManagedBy

\* C23: Clean removes each managed volume with force; when a removal fails the
\* command returns that error and prints no success; it returns nil only
\* after every managed volume was removed successfully.
C23_CleanSurfacesFailure ==
  store.cmd = "clean" =>
    /\ \A n \in Managed : \A k \in 1..Len(store.removes[n]) : store.removes[n][k].force
    /\ store.pc = "done" =>
         /\ (\E n \in Managed : \E k \in 1..Len(store.removes[n]) : ~store.removes[n][k].ok)
              => store.results = <<"RemoveError">> /\ ~store.printed
         /\ store.results = <<"nil">> =>
              \A n \in Managed : /\ store.removes[n] = <<[force |-> TRUE, ok |-> TRUE]>>
                                 /\ ~store.vols[n].present
         /\ store.printed <=> store.results = <<"nil">>

\* The second volume was in use: the first was removed, the command failed.
C23_Witness ==
  /\ store.cmd = "clean" /\ store.pc = "done" /\ store.results = <<"RemoveError">>
  /\ store.atStart[NixVarVolume].present /\ store.vols[NixVarVolume].present
  /\ store.removes[NixStoreVolume] = <<[force |-> TRUE, ok |-> TRUE]>>
  /\ store.removes[NixVarVolume] = <<[force |-> TRUE, ok |-> FALSE]>>

\* SecurityContextForProfile has been applied to the profile name.
ProfileMapped == desc.pc \in {"create", "submitted", "failed"} /\ desc.rt \in {"kubernetes", "pod"}

\* The policies of the five profiles, and no policy with UnknownProfile for
\* any other name in Others.
ProfilePolicies(Others) ==
  ProfileMapped =>
    LET sc == desc.d.sc IN
    /\ desc.profile = "general" => desc.err = "" /\ sc.present /\ sc.runAsNonRoot = "false"
    /\ desc.profile = "baseline" => desc.err = "" /\ ~sc.present
    /\ desc.profile = "restricted" =>
         /\ desc.err = "" /\ sc.present
         /\ sc.runAsNonRoot = "true" /\ sc.runAsUser # "unset" /\ sc.runAsUser # "0"
         /\ sc.capDrop = {"ALL"} /\ sc.capAdd = {}
         /\ sc.allowPrivilegeEscalation = "false"
         /\ sc.seccomp = "RuntimeDefault"
    /\ desc.profile = "netadmin" =>
         desc.err = "" /\ sc.present /\ sc.capAdd = {"NET_ADMIN", "NET_RAW"}
    /\ desc.profile = "sysadmin" => desc.err = "" /\ sc.present /\ sc.privileged = "true"
    /\ desc.profile \in Others =>
         desc.err = "UnknownProfile" /\ ~sc.present /\ desc.pc = "failed"

\* C24 as stated: the five profile names map to their policies and every other
\* name yields UnknownProfile and no policy.
C24_EveryOtherNameUnknown == ProfilePolicies(ProfileNames \ ValidProfiles)

\* C24: the five profile names map to their policies (general permits root,
\* baseline sets nothing, restricted forces a non-root user, drops all
\* capabilities, denies privilege escalation and applies the default seccomp
\* profile, netadmin adds the network capabilities, sysadmin is privileged); the
\* empty name maps to the general policy; any other name yields UnknownProfile
\* and no policy.
C24_ProfilePolicies ==
  /\ ProfilePolicies(ProfileNames \ (ValidProfiles \cup {""}))
  /\ ProfileMapped /\ desc.profile = ""
       => desc.err = "" /\ desc.d.sc = SecurityContextForProfile("general").sc

\* The restricted profile was mapped and its context set on the container.
C24_Witness ==
  /\ ProfileMapped /\ desc.profile = "restricted" /\ desc.pc = "submitted"
  /\ desc.d.sc.capDrop = {"ALL"}

\* The paths at which a submitted session mounts something of the target's.
SharedPaths ==
  IF desc.rt = "docker" THEN {m.target : m \in desc.d.mounts \ StoreMounts}
  ELSE {m.mountPath : m \in desc.d.mounts}

\* The paths of the target's mounts that are neither sub-path mounts nor at a
\* reserved path.
ShareablePaths ==
  {mp.destination : mp \in {x \in desc.mountPoints : x.destination \notin ReservedPaths}}
    \cup {vm.mountPath : vm \in {x \in desc.volumeMounts :
                                   /\ x.subPath = "" /\ x.subPathExpr = ""
                                   /\ x.mountPath \notin ReservedPaths}}

\* C25: a submitted session mounts exactly the target's mounts that are neither
\* sub-path mounts nor at a path reserved by the store when volumes are shared,
\* and none of the target's mounts otherwise.
C25_SharedMounts ==
  desc.pc = "submitted" /\ desc.rt \in {"docker", "kubernetes"} =>
    SharedPaths = IF desc.shareVolumes THEN ShareablePaths ELSE {}

C27_TargetNeverStarted ==
  img.pc # "none" =>
    /\ \A c \in img.cs : c.from = "target" => c.state = "created"
    /\ img.starts \subseteq {img.debugID} \ {NoID}
    /\ img.targetID # NoID => img.targetID \notin img.starts
    /\ \A c \in img.copies : c.id = img.targetID /\ c.from = "target" /\ c.state = "created"

\* The debug container runs with the target's filesystem copied in, beside
\* the stopped target container.
C27_Witness ==
  /\ img.pc = "streaming" /\ img.copied
  /\ \E c \in img.cs : c.id = img.debugID /\ c.state = "running"
  /\ \E c \in img.cs : c.id = img.targetID /\ c.state = "created"

\* The schemas ParseTarget recognises.
KnownSchemas == {DockerSchema, ContainerdSchema, NerdctlSchema, K8sSchema}

\* The argument's prefix before its first "://", when it has one.
HasSchema == StrIndex(CliRaw, SchemaSep) # -1

CliSchema == SubSeq(CliRaw, 1, StrIndex(CliRaw, SchemaSep))

\* C31: an address whose prefix before "://" is not a recognised schema is
\* refused with UnknownRuntime and yields no target, whatever follows.
C31_UnknownSchemaRefused ==
  CliParsed /\ HasSchema /\ CliSchema \notin KnownSchemas =>
    cli.pc = "done" /\ cli.result = "UnknownRuntime" /\ cli.target = NoTarget

\* An unknown schema followed by a well-formed remainder was refused.
C31_Witness ==
  /\ cli.pc = "done" /\ cli.result = "UnknownRuntime"
  /\ CliRaw = <<"a", ":", "/", "/", "a", "/", "a">>

\* C32: when runExec hands the target to a runtime's exec operation its name
\* is not empty, and its namespace and container are empty unless it is a
\* cluster target.
C32_NamedBeforeExec ==
  cli.pc \in {"resolved", "dispatched"} /\ cli.cmd = "exec" =>
    /\ cli.target.name # << >>
    /\ cli.target.runtime # "kubernetes" =>
         cli.target.namespace = << >> /\ cli.target.container = << >>

\* A cluster address without a pod name went through the picker and reached
\* KubernetesExec.
C32_Witness ==
  /\ cli.pc = "dispatched" /\ cli.cmd = "exec" /\ cli.target.runtime = "kubernetes"
  /\ IsK8sAddress /\ K8sRest = <<"a", "/">>
  /\ cli.calls = 2 /\ cli.target.name # << >>

\* C38: on the local engine at most one container carries the session name
\* derived from the target, whatever invocations ran before, and ContainerCreate
\* is only reached through the forced removal of a container of that name.
C38_OneSessionPerTarget ==
  /\ [](Cardinality(Named(SessionName)) <= 1)
  /\ [][inv'.pc = "dCreate" /\ inv.pc # "dCreate" => inv.pc = "dRemove"]_vars

\* The second invocation's session replaced the first's under the same name.
C38_Witness ==
  /\ runs = 2 /\ inv.runtime = "docker" /\ inv.pc = "attached"
  /\ \E c \in dk.cs : c.id = 2 /\ c.name = SessionName
  /\ Cardinality(dk.cs) = 1

TargetErrors == {"InspectTargetError", "TargetNotRunning"}

\* C39: an invocation that returns the target's inspect error or its
\* not-running error does so at its first step after connecting, with the
\* engine's containers as they were and no create or attach issued.
C39_TargetCheckLeavesEngine ==
  [][inv'.pc = "done" /\ inv.pc # "done" /\ inv'.runtime = "docker"
       /\ inv'.result \in TargetErrors
     => /\ inv.pc = "dInspect"
        /\ dk' = dk
        /\ inv'.creates = 0 /\ inv'.attaches = 0
        /\ inv'.sess = "Absent"]_vars

\* The target stopped with a session left by an earlier invocation; the next
\* invocation returned not-running and the session is still there.
C39_Witness ==
  /\ runs = 2 /\ inv.pc = "done" /\ inv.result = "TargetNotRunning"
  /\ dk.target = "exited"
  /\ Named(SessionName) # {}

\* C40: when ContainerStart fails, the invocation returns the start error
\* without an attach, and the container it created is gone.
C40_FailedStartRemoved ==
  inv.pc = "done" /\ inv.runtime = "docker" /\ inv.result = "StartError" =>
    /\ inv.attaches = 0
    /\ \A c \in dk.cs : c.id # inv.name

\* The session the lookup would reuse, as the backend has it now.
RunningSessions ==
  IF target = "docker"
  THEN {c.id : c \in {d \in Named(SessionName) : d.state = "running"}}
  ELSE {n \in SeqToSet(kpod.spec) : kpod.status[n].state = "running"}

ReuseDecided == inv'.reused /\ ~inv.reused

LookupReturned ==
  /\ inv.pc \in {"dLookup", "kGet"}
  /\ inv'.pc \notin {inv.pc, "done"}

PodEventReady == inv.pc = "pWaiting" /\ ~inv.closed /\ (inv.initial \/ inv.cursor < rv)

NextPodEvent ==
  IF inv.initial THEN PodEvent("ADDED", inv.name, inv.snap)
  ELSE klog[inv.cursor + 1 - logBase]

PodEventTaken == inv'.cursor # inv.cursor \/ inv'.initial # inv.initial

\* C36: in standalone-pod mode, when the watch delivers the debug pod in phase
\* Failed (it terminated without running), the readiness wait returns a failure
\* at that event instead of waiting on for the timeout.
C36_PodFailureFailsAtOnce ==
  [][PodEventReady /\ PodEventTaken
       /\ NextPodEvent.name = inv.name /\ NextPodEvent.phase = "Failed"
     => inv'.pc = "done" /\ inv'.sess = "Failed"]_vars

\* The event waitForEphemeralContainer takes in this step, when it takes one.
EphEventTaken == inv.pc = "kWaiting" /\ logBase' # logBase /\ logBase' = inv.cursor + 1

EphEvent == klog[inv.cursor + 1 - logBase]

\* The submitted session's own entry decides: running, terminated, or waiting
\* with a fatal reason.
Decisive(cs) ==
  \/ cs.state \in {"running", "terminated"}
  \/ cs.state = "waiting" /\ cs.reason \in FatalReasons

StillWaiting == inv'.pc = "kWaiting" /\ inv'.result = "none" /\ inv'.sess = inv.sess

\* C37: in the ephemeral-container watch an event that is no modification, or
\* a modification in which the submitted session's own entry is absent or
\* waiting with a reason outside the fatal set, leaves the watch waiting,
\* whatever the entries of the pod's other containers; and the watch is left
\* only by a decisive entry of the submitted session in a modification, by the
\* timeout, or by cancellation.
C37_OnlyOwnDecisiveStatusDecides ==
  [][/\ EphEventTaken /\ (EphEvent.type # "MODIFIED" \/ ~Decisive(EphEvent.status[inv.name]))
          => StillWaiting
     /\ inv.pc = "kWaiting" /\ inv'.pc # "kWaiting"
          => \/ EphEventTaken /\ EphEvent.type = "MODIFIED" /\ Decisive(EphEvent.status[inv.name])
             \/ inv'.result \in {"Timeout", "Cancelled"}
    ]_vars

\* The watch took three events and still waits, and the session has no status
\* yet: none of the three was a modification.
C37_Witness ==
  /\ inv.pc = "kWaiting" /\ inv.name = 0 /\ kpod.spec = <<0>>
  /\ inv.delivered = 3 /\ inv.cursor = rv
  /\ kpod.status[0] = None

\* The target an invocation asked for: the container of the address, or the
\* pod's first container.
Requested(me) == IF conc.rt = "kubernetes" THEN TargetContainer(me.want) ELSE me.want

\* C33: an invocation that reuses a session reuses one that was created for
\* the target it asked for: the same local container, or the same pod and the
\* same target container in it.
C33_ReusedForRequestedTarget ==
  \A p \in Procs :
    conc.procs[p].reused => conc.procs[p].gotFor = Requested(conc.procs[p])

Overlapping ==
  /\ \A p \in Procs : conc.procs[p].pc \notin {"idle", "done"}
  /\ \A p, q \in Procs : Requested(conc.procs[p]) = Requested(conc.procs[q])

\* C34: of two invocations that run at the same time against one target, each
\* issues at most one create, and a session leaves the backend only in a step
\* of the invocation that created it.
C34_CreateArbitratesOnly ==
  /\ [](\A p \in Procs : conc.procs[p].creates <= 1)
  /\ [][Overlapping =>
          /\ \A c \in conc.cs :
               (\A d \in conc'.cs : d.id # c.id) => conc'.procs[c.by] # conc.procs[c.by]
          /\ SubSeq(conc'.pod.spec, 1, Len(conc.pod.spec)) = conc.pod.spec
       ]_vars

====
